---- MODULE Spec2Model ----
(***************************************************************************)
(* A model of the nIRC bot core (src/nIRC/irc.py and src/nIRC/types):      *)
(* the connection, the line parser, the main read loop of Bot.start, the   *)
(* dispatcher, and the cog lifecycle (load_cog, unload_cog, reload_cog).   *)
(*                                                                         *)
(* Text is modelled as a sequence of units.  A unit is a string that       *)
(* stands for a run of characters of the real text: the characters the     *)
(* code looks at one by one (" ", ":", "!", "#", ">") are units of their   *)
(* own, every other unit is a word without any of these characters.  All   *)
(* string operations of the code (strip, split, startswith, the regular    *)
(* expression IRC_RE) are computed on these sequences.                     *)
(***************************************************************************)
EXTENDS Integers, Sequences, FiniteSets, TLC

(***************************************************************************)
(* Bounds of the model.                                                    *)
(***************************************************************************)
\* longest PRIVMSG text (in units) that is enumerated exhaustively
MaxMsgLen == 2
\* how many times start() is called on the Bot (a reconnect is a second call)
MaxStarts == 2
\* how many times one cog module is executed (import or reload)
MaxImports == 2
\* dcc handler tasks that may be pending at one time
MaxDccTasks == 1
\* max_repeat of the registered tasks
MaxRepeat == 2
\* task drivers started with start_task in one run
MaxDrivers == 2
\* send_raw calls of concurrent callers that are followed in one turn
MaxSends == 3
\* longest file name of a DCC SEND payload (in characters) that is enumerated
MaxNameLen == 4
\* largest size, in bytes, of the files whose transfer is followed read by
\* read
MaxFileSize == 3
\* ACKs that the connection to the sender takes while the sender reads none
AckWindow == 1
\* further ACKs that the writer buffers before drain() waits
HighWater == 1
\* turns of the transfer loop that are taken in one step for a large file
RunChunks == 1048574
\* ack_chunk_size of start_transfer (its default)
ack_chunk_size == 4096

(***************************************************************************)
(* Python string operations on unit sequences.                             *)
(***************************************************************************)
None == <<"None">>

IsWs(u) == u = " "

Drop(s, n) == SubSeq(s, n + 1, Len(s))

\* str.startswith
StartsWith(s, p) == Len(p) <= Len(s) /\ SubSeq(s, 1, Len(p)) = p

RECURSIVE LStrip(_)
LStrip(s) == IF s # <<>> /\ IsWs(Head(s)) THEN LStrip(Tail(s)) ELSE s

RECURSIVE RStrip(_)
RStrip(s) ==
    IF s # <<>> /\ IsWs(s[Len(s)]) THEN RStrip(SubSeq(s, 1, Len(s) - 1)) ELSE s

\* str.strip()
Strip(s) == RStrip(LStrip(s))

\* index one past the run of non-whitespace units that starts at i
RECURSIVE RunEnd(_, _)
RunEnd(s, i) == IF i <= Len(s) /\ ~IsWs(s[i]) THEN RunEnd(s, i + 1) ELSE i

\* str.split(): the maximal runs of non-whitespace
RECURSIVE SplitWs(_)
SplitWs(s) ==
    LET t == LStrip(s)
        e == RunEnd(t, 1)
    IN  IF t = <<>> THEN <<>>
        ELSE <<SubSeq(t, 1, e - 1)>> \o SplitWs(Drop(t, e - 1))

\* str.split(maxsplit=1): the first run, then the rest without its leading
\* whitespace (trailing whitespace of the rest is kept)
SplitWsMax1(s) ==
    LET t == LStrip(s)
        e == RunEnd(t, 1)
        r == LStrip(Drop(t, e - 1))
    IN  IF t = <<>> THEN <<>>
        ELSE IF r = <<>> THEN <<SubSeq(t, 1, e - 1)>>
        ELSE <<SubSeq(t, 1, e - 1), r>>

\* str.split(" "): cut at every single space, empty pieces kept
RECURSIVE SplitSpace(_)
SplitSpace(s) ==
    LET hits == {i \in 1..Len(s) : s[i] = " "}
    IN  IF hits = {} THEN <<s>>
        ELSE LET i == CHOOSE k \in hits : \A m \in hits : k <= m
             IN  <<SubSeq(s, 1, i - 1)>> \o SplitSpace(Drop(s, i))

\* the positions at which sub occurs in s
Occurrences(s, sub) ==
    {i \in 1..(Len(s) - Len(sub) + 1) : SubSeq(s, i, i + Len(sub) - 1) = sub}

\* the operator "sub in s" on strings
Contains(s, sub) == Occurrences(s, sub) # {}

\* str.split(sep, 1): cut at the first occurrence of sep
SplitOnce(s, sep) ==
    LET hits == Occurrences(s, sep)
    IN  IF hits = {} THEN <<s>>
        ELSE LET i == CHOOSE k \in hits : \A m \in hits : k <= m
             IN  <<SubSeq(s, 1, i - 1), Drop(s, i + Len(sep) - 1)>>

(***************************************************************************)
(* IRC_RE and Bot._parse_line.                                             *)
(***************************************************************************)
\* IRC_RE.match(line): the four groups, None for a group that did not take
\* part; matched = FALSE when the expression does not match.
\* (\S+) and what follows it match s: s starts with a run of non-whitespace,
\* and what follows the run is not one bare space
IRC_RE_rest(s) ==
    /\ s # <<>>
    /\ ~IsWs(s[1])
    /\ Drop(s, RunEnd(s, 1) - 1) # <<" ">>

\* the groups after the command: t is what follows the command.
\* (?: (?!:)(.+?))? is lazy: it ends at the first " :" that leaves it at
\* least one character, else at the end of the line
IRC_RE_groups(prefix, command, t) ==
    LET cuts == {j \in 3..(Len(t) - 1) : t[j] = " " /\ t[j + 1] = ":"}
        cut == CHOOSE j \in cuts : \A m \in cuts : j <= m
    IN  IF t = <<>> THEN
            [matched |-> TRUE, prefix |-> prefix, command |-> command,
             middle |-> None, trailing |-> None]
        ELSE IF t[2] = ":" THEN
            [matched |-> TRUE, prefix |-> prefix, command |-> command,
             middle |-> None, trailing |-> Drop(t, 2)]
        ELSE IF cuts = {} THEN
            [matched |-> TRUE, prefix |-> prefix, command |-> command,
             middle |-> Drop(t, 1), trailing |-> None]
        ELSE
            [matched |-> TRUE, prefix |-> prefix, command |-> command,
             middle |-> SubSeq(t, 2, cut - 1), trailing |-> Drop(t, cut + 1)]

\* the expression from (\S+) on, on what is left after the prefix group
IRC_RE_command(prefix, rest, ce) ==
    IF ~IRC_RE_rest(rest)
    THEN [matched |-> FALSE, prefix |-> None, command |-> None,
          middle |-> None, trailing |-> None]
    ELSE IRC_RE_groups(prefix, SubSeq(rest, 1, ce - 1), Drop(rest, ce - 1))

\* (?:[:](\S+) )? takes part when a non-empty run follows the colon, then
\* one space, and the rest of the expression matches after it; pe is the
\* end of the run
IRC_RE_prefix(line, pe) ==
    IF /\ Len(line) >= 2
       /\ line[1] = ":"
       /\ pe > 2
       /\ pe <= Len(line)
       /\ IRC_RE_rest(Drop(line, pe))
    THEN IRC_RE_command(SubSeq(line, 2, pe - 1), Drop(line, pe),
                        RunEnd(Drop(line, pe), 1))
    ELSE IRC_RE_command(None, line, RunEnd(line, 1))

IRC_RE(line) == IRC_RE_prefix(line, RunEnd(line, 2))

\* "x or ''" for a group of the match
OrEmpty(g) == IF g = None THEN <<>> ELSE g

\* Bot._parse_line: (prefix, command, target, author_nick, message); raises
\* is TRUE when target_part.split()[0] fails on a middle part of whitespace.
\* m is the match, prefix and message are its groups "or ''"
parse_groups(line, m, prefix, target_part, message) ==
    LET author_nick == IF Contains(prefix, <<"!">>)
                       THEN SplitOnce(prefix, <<"!">>)[1]
                       ELSE prefix
        target_system == IF StartsWith(message, <<"#">>)
                         THEN Strip(message) ELSE <<>>
    IN  IF ~m.matched THEN
            [raises |-> FALSE, prefix |-> <<>>, command |-> <<>>,
             target |-> <<>>, author_nick |-> <<>>, message |-> line]
        ELSE IF target_part # <<>> /\ SplitWs(target_part) = <<>> THEN
            [raises |-> TRUE, prefix |-> prefix, command |-> m.command,
             target |-> <<>>, author_nick |-> author_nick, message |-> message]
        ELSE
            [raises |-> FALSE, prefix |-> prefix, command |-> m.command,
             target |-> IF target_part # <<>>
                        THEN SplitWs(target_part)[1] ELSE target_system,
             author_nick |-> author_nick, message |-> message]

parse_match(line, m) ==
    parse_groups(line, m, OrEmpty(m.prefix), OrEmpty(m.middle),
                 OrEmpty(m.trailing))

_parse_line(line) == parse_match(line, IRC_RE(line))

(***************************************************************************)
(* DCC_SEND_REGEX.search on a PRIVMSG text.  The numbers of a payload are   *)
(* units of their own (NumberUnits); the file name is matched lazily and    *)
(* may hold spaces.                                                         *)
(***************************************************************************)
NumberUnits == {"2130706433", "5000", "1048576"}

DCC_SEND_REGEX(msg) ==
    LET starts == {i \in 1..Len(msg) :
                     /\ i + 3 <= Len(msg)
                     /\ msg[i] \in {"DCC", "dcc"}
                     /\ msg[i + 1] = " "
                     /\ msg[i + 2] \in {"SEND", "send"}
                     /\ msg[i + 3] = " "}
        \* the file name runs from i + 4 up to (not including) position j
        ends(i) == {j \in (i + 5)..Len(msg) :
                     /\ j + 5 <= Len(msg)
                     /\ msg[j] = " " /\ msg[j + 1] \in NumberUnits
                     /\ msg[j + 2] = " " /\ msg[j + 3] \in NumberUnits
                     /\ msg[j + 4] = " " /\ msg[j + 5] \in NumberUnits}
        hits == {i \in starts : ends(i) # {}}
        i0 == CHOOSE i \in hits : \A m \in hits : i <= m
        j0 == CHOOSE j \in ends(i0) : \A m \in ends(i0) : j <= m
    IN  IF hits = {} THEN [found |-> FALSE]
        ELSE [found |-> TRUE, filename |-> SubSeq(msg, i0 + 4, j0 - 1),
              ip |-> msg[j0 + 1], port |-> msg[j0 + 3],
              filesize |-> msg[j0 + 5]]

(***************************************************************************)
(* Registries.  A handler is a function object: the module that defined it, *)
(* its __name__, and the execution of the module that created it (every    *)
(* execution of a module creates new function objects).  commands and tasks *)
(* are dicts (functions on their key set); prefix_commands is a dict whose  *)
(* iteration order matters (a sequence of entries); the event registry maps *)
(* each kind to a list.                                                     *)
(***************************************************************************)
Kinds == {"on_message", "on_join", "on_leave", "on_raw", "on_ready",
          "on_nick", "on_dcc"}

Fn(owner, name, gen) == [owner |-> owner, name |-> name, gen |-> gen]

EmptyDict == [k \in {} |-> None]

DictPut(d, k, v) == [x \in DOMAIN d \cup {k} |-> IF x = k THEN v ELSE d[x]]

DictPop(d, k) == [x \in DOMAIN d \ {k} |-> d[x]]

OrdKeys(d) == {d[i].key : i \in DOMAIN d}

OrdGet(d, k) == d[CHOOSE i \in DOMAIN d : d[i].key = k].h

\* d[k] = v on a dict in insertion order: a new key goes last, an old key
\* keeps its place
OrdPut(d, k, v) ==
    IF k \in OrdKeys(d)
    THEN [i \in DOMAIN d |-> IF d[i].key = k THEN [key |-> k, h |-> v] ELSE d[i]]
    ELSE Append(d, [key |-> k, h |-> v])

RECURSIVE OrdPop(_, _)
OrdPop(d, k) ==
    IF d = <<>> THEN <<>>
    ELSE IF Head(d).key = k THEN OrdPop(Tail(d), k)
    ELSE <<Head(d)>> \o OrdPop(Tail(d), k)

SeqSet(s) == {s[i] : i \in DOMAIN s}

\* list.remove(x): the first occurrence goes
ListRemove(s, x) ==
    LET hits == {i \in DOMAIN s : s[i] = x}
        i == CHOOSE k \in hits : \A m \in hits : k <= m
    IN  IF hits = {} THEN s ELSE SubSeq(s, 1, i - 1) \o Drop(s, i)

(***************************************************************************)
(* The modules that register handlers.  MainScript is the program that     *)
(* builds the Bot (as exampleBot.py does): its decorators run before the   *)
(* Bot is constructed.  CogScript(c) is the body of cog module c.  Each    *)
(* entry is one decorated function.                                        *)
(***************************************************************************)
Reg(deco, key, name) == [deco |-> deco, key |-> key, name |-> name]

MainScript ==
    << Reg("prefix_command", <<">">>, "ai_query_command"),
       Reg("prefix_command", <<">", ">">>, "quote_command"),
       Reg("prefix_command", <<"!">>, "bang_command"),
       Reg("command", <<"hello">>, "hello_cmd"),
       Reg("on_message", None, "keyword_responder"),
       Reg("on_join", None, "greet_joiner"),
       Reg("on_leave", None, "farewell"),
       Reg("on_nick", None, "nick_logger"),
       Reg("on_raw", None, "raw_logger"),
       Reg("on_ready", None, "initialization_setup"),
       Reg("on_ready", None, "second_setup"),
       Reg("on_dcc", None, "get_file"),
       Reg("task", None, "status_announcement"),
       Reg("task", None, "heartbeat") >>

Cogs == {"X", "Y"}

CogScript(c) ==
    IF c = "X"
    THEN << Reg("command", <<"foo">>, "foo_cmd"),
            Reg("on_message", None, "keyword_responder") >>
    ELSE << Reg("command", <<"foo">>, "y_foo"),
            Reg("prefix_command", <<"?">>, "cog_prefix_cmd"),
            Reg("prefix_command", <<"%">>, "cog_percent_cmd"),
            Reg("on_message", None, "y_listener") >>

(***************************************************************************)
(* The decorators (Bot.command, Bot.prefix_command, Bot.task, Bot.on_raw   *)
(* and so on) write to the process-wide registries.  w is the record of all           *)
(* registries: gc, gp, gt, ge are _command_registry,                       *)
(* _prefix_command_registry, _task_registry and _event_registry; bc, bp,   *)
(* bt, be are the Bot's commands, prefix_commands, task_registry and       *)
(* event_handlers; al[k] says that be[k] and ge[k] are one list object     *)
(* (Bot.__init__ copies the dict of lists, not the lists), so that a       *)
(* change made in place to one is a change of the other.                   *)
(***************************************************************************)
\* list.append / list.extend on the process-wide list of kind k
GAppend(w, k, hs) ==
    [w EXCEPT !.ge[k] = @ \o hs,
              !.be[k] = IF w.al[k] THEN @ \o hs ELSE @]

\* list.append / list.extend on the Bot's list of kind k
BAppend(w, k, hs) ==
    [w EXCEPT !.be[k] = @ \o hs,
              !.ge[k] = IF w.al[k] THEN @ \o hs ELSE @]

\* the "if h in list: list.remove(h)" pair of unload_cog and reload_cog:
\* first on the Bot's list, then on the process-wide list
RemoveBoth(w, k, h) ==
    LET w1 == [w EXCEPT !.be[k] = ListRemove(@, h),
                        !.ge[k] = IF w.al[k] THEN ListRemove(@, h) ELSE @]
    IN  [w1 EXCEPT !.ge[k] = ListRemove(@, h),
                   !.be[k] = IF w1.al[k] THEN ListRemove(@, h) ELSE @]

Decorate(w, r, f) ==
    CASE r.deco = "command" -> [w EXCEPT !.gc = DictPut(@, r.key, f)]
      [] r.deco = "prefix_command" -> [w EXCEPT !.gp = OrdPut(@, r.key, f)]
      [] r.deco = "task" -> [w EXCEPT !.gt = DictPut(@, r.name, f)]
      [] OTHER -> GAppend(w, r.deco, <<f>>)

\* the first n decorated functions of a module body are defined
RECURSIVE Execute(_, _, _, _, _)
Execute(w, owner, gen, script, n) ==
    IF n = 0 THEN w
    ELSE Decorate(Execute(w, owner, gen, script, n - 1), script[n],
                  Fn(owner, script[n].name, gen))

\* the registries when the Bot has been constructed (Bot.__init__): cogs is
\* the Bot's bookkeeping of loaded cogs, sm is sys.modules (cog modules
\* only), im counts the executions of each cog module, ret is what the last
\* cog operation returned
NoReturn == [code |-> 0 - 1, value |-> "none"]

EmptyRegistries ==
    [gc |-> EmptyDict, gp |-> <<>>, gt |-> EmptyDict,
     ge |-> [k \in Kinds |-> <<>>],
     bc |-> EmptyDict, bp |-> <<>>, bt |-> EmptyDict,
     be |-> [k \in Kinds |-> <<>>], al |-> [k \in Kinds |-> FALSE],
     cogs |-> EmptyDict, sm |-> {}, im |-> [c \in Cogs |-> 0],
     ret |-> NoReturn]

BotInit ==
    LET g == Execute(EmptyRegistries, "main", 0, MainScript, Len(MainScript))
    IN  [g EXCEPT !.bc = g.gc, !.bp = g.gp, !.bt = g.gt, !.be = g.ge,
                  !.al = [k \in Kinds |-> TRUE]]

(***************************************************************************)
(* load_cog, unload_cog, reload_cog.  The import of a module executes its  *)
(* body; n is the number of decorated functions defined when the body      *)
(* ends, ok says that it ended without an exception.  rev fixes the order  *)
(* in which the set new_prefix is walked.                                  *)
(***************************************************************************)
\* [h for h in after_handlers if h not in before_handler_set]
AddedHandlers(after, before) ==
    LET new(h) == h \notin SeqSet(before)
    IN  SelectSeq(after, new)

\* "if not handler.__name__ in [h.__name__ for h in list]: list.append"
RECURSIVE DedupAppend(_, _)
DedupAppend(list, hs) ==
    IF hs = <<>> THEN list
    ELSE DedupAppend(IF \E i \in DOMAIN list : list[i].name = Head(hs).name
                     THEN list ELSE Append(list, Head(hs)),
                     Tail(hs))

\* "for k in ks: d[k] = g[k]" on a dict
CopyKeys(d, g, ks) ==
    [x \in DOMAIN d \cup ks |-> IF x \in ks THEN g[x] ELSE d[x]]

\* "for prefix in new_prefix: d[prefix] = g[prefix]", walked in order ord
RECURSIVE OrdCopyKeys(_, _, _)
OrdCopyKeys(d, g, ord) ==
    IF ord = <<>> THEN d
    ELSE OrdCopyKeys(OrdPut(d, Head(ord), OrdGet(g, Head(ord))), g, Tail(ord))

\* the order in which a set of strings is walked is not fixed; a cog adds
\* at most two prefixes, so the two directions are all orders
SetOrder(S, rev) ==
    LET f == CHOOSE q \in [1..Cardinality(S) -> S] :
                 \A i, j \in 1..Cardinality(S) : i # j => q[i] # q[j]
    IN  IF rev THEN [i \in 1..Cardinality(S) |-> f[Cardinality(S) + 1 - i]]
        ELSE f

\* what load_cog and reload_cog do with the registrations of the module:
\* w0 holds the registries before the import, w those after it
register_new(w0, w, new_cmds, new_prefix, new_tasks, added, rev) ==
    [w EXCEPT !.bc = CopyKeys(@, w.gc, new_cmds),
              !.bp = OrdCopyKeys(@, w.gp, SetOrder(new_prefix, rev)),
              !.bt = CopyKeys(@, w.gt, new_tasks),
              !.be = [k \in Kinds |-> @[k] \o added[k]],
              !.ge = [k \in Kinds |-> IF w.al[k] THEN @[k] \o added[k]
                                      ELSE @[k]]]

cog_data(new_cmds, new_prefix, new_tasks, added) ==
    [commands |-> new_cmds, prefix_commands |-> new_prefix,
     tasks |-> new_tasks, events |-> added]

\* load_cog from after_cmds on
load_success(w0, w, c, new_cmds, new_prefix, new_tasks, added, rev) ==
    [register_new(w0, w, new_cmds, new_prefix, new_tasks, added, rev)
        EXCEPT !.cogs = DictPut(@, c, cog_data(new_cmds, new_prefix,
                                               new_tasks, added)),
               !.be = [k \in Kinds |->
                          DedupAppend(DedupAppend(<<>>, w0.ge[k]), added[k])],
               !.al = [k \in Kinds |-> FALSE],
               !.ret = [code |-> 0, value |-> "True"]]

load_diff(w0, w, c, rev) ==
    load_success(w0, w, c, DOMAIN w.gc \ DOMAIN w0.gc,
                 OrdKeys(w.gp) \ OrdKeys(w0.gp), DOMAIN w.gt \ DOMAIN w0.gt,
                 [k \in Kinds |-> AddedHandlers(w.ge[k], w0.ge[k])], rev)

\* importlib.import_module / importlib.reload execute the module body
exec_module(w, c, n) ==
    [Execute(w, c, w.im[c] + 1, CogScript(c), n) EXCEPT !.im[c] = @ + 1]

\* load_cog without the test "cog_name in self.cogs"
load_cog_again(w, c, n, ok, rev) ==
    IF c \in w.sm
    THEN load_diff(w, w, c, rev)
    ELSE IF ok
    THEN load_diff(w, [exec_module(w, c, n) EXCEPT !.sm = @ \cup {c}], c, rev)
    ELSE [exec_module(w, c, n) EXCEPT !.ret = [code |-> 2, value |-> "error"]]

load_cog(w, c, n, ok, rev) ==
    IF c \in DOMAIN w.cogs
    THEN [w EXCEPT !.ret = [code |-> 1, value |-> "False"]]
    ELSE IF c \in w.sm                \* the cached module: nothing is executed
    THEN load_diff(w, w, c, rev)
    ELSE IF ok
    THEN load_diff(w, [exec_module(w, c, n) EXCEPT !.sm = @ \cup {c}], c, rev)
    ELSE [exec_module(w, c, n) EXCEPT !.ret = [code |-> 2, value |-> "error"]]

\* the order of the kinds in _event_registry
KindSeq == <<"on_message", "on_join", "on_leave", "on_raw", "on_ready",
             "on_nick", "on_dcc">>

RECURSIVE OrdPopAll(_, _)
OrdPopAll(d, ks) ==
    IF ks = {} THEN d
    ELSE LET k == CHOOSE x \in ks : TRUE
         IN  OrdPopAll(OrdPop(d, k), ks \ {k})

\* "for handler in handlers_to_remove: ..." for one kind
RECURSIVE remove_handlers(_, _, _)
remove_handlers(w, k, hs) ==
    IF hs = <<>> THEN w
    ELSE remove_handlers(RemoveBoth(w, k, Head(hs)), k, Tail(hs))

\* "for event_name, handlers_to_remove in cog_data['events'].items(): ..."
\* from the i-th kind on
RECURSIVE remove_events(_, _, _)
remove_events(w, events, i) ==
    IF i > Len(KindSeq) THEN w
    ELSE remove_events(remove_handlers(w, KindSeq[i], events[KindSeq[i]]),
                       events, i + 1)

\* remove_registrations that leaves the process-wide dicts alone
remove_registrations_bot_only(w, data) ==
    remove_events(
        [w EXCEPT !.bc = [x \in DOMAIN @ \ data.commands |-> @[x]],
                  !.bp = OrdPopAll(@, data.prefix_commands),
                  !.bt = [x \in DOMAIN @ \ data.tasks |-> @[x]]],
        data.events, 1)

\* the removal phase of unload_cog and reload_cog, after cogs.pop(cog_name)
remove_registrations(w, data) ==
    remove_events(
        [w EXCEPT !.bc = [x \in DOMAIN @ \ data.commands |-> @[x]],
                  !.gc = [x \in DOMAIN @ \ data.commands |-> @[x]],
                  !.bp = OrdPopAll(@, data.prefix_commands),
                  !.gp = OrdPopAll(@, data.prefix_commands),
                  !.bt = [x \in DOMAIN @ \ data.tasks |-> @[x]],
                  !.gt = [x \in DOMAIN @ \ data.tasks |-> @[x]]],
        data.events, 1)

\* unload_cog after the removal phase: the module leaves sys.modules and
\* every list of _event_registry is replaced by the Bot's list
unload_finish(w, c) ==
    [w EXCEPT !.sm = @ \ {c},
              !.ge = w.be,
              !.al = [k \in Kinds |-> TRUE],
              !.ret = [code |-> 0, value |-> "True"]]

unload_cog(w, c) ==
    IF c \notin DOMAIN w.cogs
    THEN [w EXCEPT !.ret = [code |-> 1, value |-> "False"]]
    ELSE unload_finish(
             remove_registrations([w EXCEPT !.cogs = DictPop(@, c)],
                                  w.cogs[c]), c)

\* reload_cog from after_cmds on
reload_success(w0, w, c, new_cmds, new_prefix, new_tasks, added, rev) ==
    [register_new(w0, w, new_cmds, new_prefix, new_tasks, added, rev)
        EXCEPT !.cogs = DictPut(@, c, cog_data(new_cmds, new_prefix,
                                               new_tasks, added)),
               !.ret = [code |-> 0, value |-> "True"]]

reload_diff(w0, w, c, rev) ==
    reload_success(w0, w, c, DOMAIN w.gc \ DOMAIN w0.gc,
                   OrdKeys(w.gp) \ OrdKeys(w0.gp), DOMAIN w.gt \ DOMAIN w0.gt,
                   [k \in Kinds |-> AddedHandlers(w.ge[k], w0.ge[k])], rev)

\* reload_cog of a loaded cog, after the removal phase has given w
reload_import(w, c, n, ok, rev) ==
    IF c \notin w.sm      \* importlib.reload of a module not in sys.modules
    THEN [w EXCEPT !.ret = [code |-> 2, value |-> "error"]]
    ELSE IF ok THEN reload_diff(w, exec_module(w, c, n), c, rev)
    ELSE [exec_module(w, c, n) EXCEPT !.ret = [code |-> 2, value |-> "error"]]

reload_cog(w, c, n, ok, rev) ==
    IF c \notin DOMAIN w.cogs
    THEN [load_cog(w, c, n, ok, rev)
             EXCEPT !.ret = [code |-> 1, value |-> "False"]]
    ELSE reload_import(
             remove_registrations([w EXCEPT !.cogs = DictPop(@, c)],
                                  w.cogs[c]), c, n, ok, rev)

(***************************************************************************)
(* Configuration: the arguments of IRCConnection(...) and Bot(...), and    *)
(* the channel map given to start().                                       *)
(***************************************************************************)
CommandPrefix == <<"!">>
BotNick == <<"bot">>
Username == <<"nirc_bot">>
Realname == <<"neko">>
\* (password, quit_msg) pairs the Bot is built with
Configs == { [password |-> None, quit_msg |-> None],
             [password |-> <<"pw">>, quit_msg |-> <<"bye">>] }
ChannelMap == << [channel |-> <<"#", "x">>, key |-> None],
                 [channel |-> <<"#", "y">>, key |-> <<"key">>] >>

(***************************************************************************)
(* The lines the server sends.  A source is the line as the server built   *)
(* it (prefix, command, middle, trailing), or a raw line; Render is the    *)
(* text on the wire.                                                       *)
(***************************************************************************)
Source(prefix, command, middle, trailing) ==
    [prefix |-> prefix, command |-> command, middle |-> middle,
     trailing |-> trailing, raw |-> None]

RawSource(l) ==
    [prefix |-> None, command |-> None, middle |-> None, trailing |-> None,
     raw |-> l]

NoSource == RawSource(None)

Render(s) ==
    IF s.raw # None THEN s.raw
    ELSE (IF s.prefix # None THEN <<":">> \o s.prefix \o <<" ">> ELSE <<>>)
         \o s.command
         \o (IF s.middle # None THEN <<" ">> \o s.middle ELSE <<>>)
         \o (IF s.trailing # None THEN <<" ", ":">> \o s.trailing ELSE <<>>)

MsgUnits == {"!", ">", "hello", " "}

\* every text of at most MaxMsgLen units; read_line strips the line, so no
\* text arrives with whitespace at its end
Messages ==
    {m \in UNION {[1..n -> MsgUnits] : n \in 0..MaxMsgLen} : RStrip(m) = m}

DccPayload ==
    <<"DCC", " ", "SEND", " ", "file", " ", "2130706433", " ", "5000", " ",
      "1048576">>

ExtraMessages ==
    { <<"hello", " ", "376", " ", "hello">>,
      <<"!", " ", "hello">>,
      <<"!", "hello", " ", "hello">>,
      <<"!", "hello", " ", " ", "hello", " ", ">">>,
      <<">", ">", " ", "hello">>,
      DccPayload,
      <<"!", "hello", " ">> \o DccPayload }

Alice == <<"alice", "!", "u@h">>
Self == BotNick \o <<"!", "u@h">>
Room == <<"#", "room">>

PrivmsgSources ==
    {Source(Alice, <<"PRIVMSG">>, t, m) :
        t \in {Room, BotNick}, m \in Messages \cup ExtraMessages}

OtherSources ==
    {Source(who, <<"JOIN">>, None, Room) : who \in {Alice, Self}}
    \cup {Source(who, <<"PART">>, Room, <<"bye">>) : who \in {Alice, Self}}
    \cup {Source(who, <<"QUIT">>, None, <<"bye">>) : who \in {Alice, Self}}
    \cup {Source(who, <<"NICK">>, None, <<"al">>) : who \in {Alice, Self}}
    \cup { Source(None, <<"PING">>, None, <<"tok">>),
           Source(None, <<"PING">>, None, None),
           Source(None, <<"PING">>, None, <<"a", " ", "376", " ", "b">>),
           Source(<<"srv">>, <<"376">>, BotNick, <<"End">>),
           Source(<<"srv">>, <<"NOTICE">>, BotNick, <<"hello">>),
           RawSource(<<>>),
           RawSource(<<"PRIVMSG", " ", " ", " ", ":", "hello">>) }

InputSources == PrivmsgSources \cup OtherSources

\* what a handler writes when it writes (ctx.reply, bot.send_raw, ...)
HandlerLine == <<"NOTICE", " ", "x">>

\* what one invocation of a handler (user code) may do: return, raise, write
\* a line and return, set bot.running = False and return
Behaviours == {"return", "raise", "send", "stop"}

(***************************************************************************)
(* Context.__init__                                                        *)
(***************************************************************************)
Context(target, author, message, command, full_line) ==
    LET arg == Strip(message)
    IN  [target |-> target, author |-> author, message |-> message,
         command_type |-> command, full_line |-> full_line,
         command_name |-> None, arg |-> arg,
         args |-> IF arg # <<>> THEN SplitWs(arg) ELSE <<>>]

NoCtx == Context(<<>>, <<>>, <<>>, <<>>, <<>>)

(***************************************************************************)
(* The numbers of a DCC SEND payload and the DCCFile built from them        *)
(* (src/nIRC/types/dcc.py).  A Python int n >= 0 is the record              *)
(* [hi |-> n \div 2^16, lo |-> n % 2^16], so that sizes of 2^32 bytes and   *)
(* more are exact.  A number of the payload is the sequence of its decimal *)
(* digits, a file name a sequence of characters.                            *)
(***************************************************************************)
\* int(s) of a string of decimal digits
RECURSIVE int(_)
int(s) ==
    IF s = <<>> THEN [hi |-> 0, lo |-> 0]
    ELSE CHOOSE n \in { [hi |-> m.hi * 10 + (m.lo * 10 + s[Len(s)]) \div 65536,
                         lo |-> (m.lo * 10 + s[Len(s)]) % 65536] :
                           m \in {int(SubSeq(s, 1, Len(s) - 1))} } : TRUE

\* x + n for a Python int x and a small n
Add(x, n) == [hi |-> x.hi + (x.lo + n) \div 65536, lo |-> (x.lo + n) % 65536]

\* x < y
Less(x, y) == x.hi < y.hi \/ (x.hi = y.hi /\ x.lo < y.lo)

\* the four bytes taken from the least significant one
ip_long_to_dotted_little_endian(ip_long) ==
    <<ip_long.lo % 256, (ip_long.lo \div 256) % 256, ip_long.hi % 256,
      (ip_long.hi \div 256) % 256>>

\* the four numbers of the dotted string f"{a}.{b}.{c}.{d}"
ip_long_to_dotted(ip_long) ==
    LET a == (ip_long.hi \div 256) % 256      \* (ip_long >> 24) & 0xFF
        b == ip_long.hi % 256                 \* (ip_long >> 16) & 0xFF
        c == (ip_long.lo \div 256) % 256      \* (ip_long >> 8) & 0xFF
        d == ip_long.lo % 256                 \* ip_long & 0xFF
    IN  <<a, b, c, d>>

\* struct.pack("!I", n): the four bytes of n, most significant first, or
\* struct.error outside 0 .. 2^32 - 1
pack_I(n) ==
    [ok |-> n.hi < 65536,
     bytes |-> IF n.hi < 65536
               THEN <<n.hi \div 256, n.hi % 256, n.lo \div 256, n.lo % 256>>
               ELSE <<>>]

\* the whole of p
basename_whole_path(p) == p

\* os.path.basename: what follows the last "/"
basename(p) ==
    LET seps == {i \in 1 .. Len(p) : p[i] = "/"}
    IN  IF seps = {} THEN p
        ELSE Drop(p, CHOOSE i \in seps : \A j \in seps : j <= i)

\* DCCFile.__init__, and the locals of start_transfer and _transfer_loop:
\*   pc       where start_transfer stands (new: not called yet)
\*   conn     the side-channel connection (none, open, closed, lost)
\*   f, file_len : the file object of open(full_path, 'wb') (none, open,
\*            closed) and the bytes written to full_path
\*   acks, chunks, last_ack : the ACKs written, the non-empty chunks read
\*            and written to the file, the bytes of the last ACK
\*   unread   the ACKs written that the sender has not read yet
\*   outcome  how the transfer went
DCCFile(author, file_name, ip_address, port, filesize, save_dir) ==
    LET stripped == Strip(file_name)
        keep == {i \in 1 .. Len(stripped) : stripped[i] # "\""}
        \* .strip('"')
        filename ==
            IF keep = {} THEN <<>>
            ELSE SubSeq(stripped,
                        CHOOSE i \in keep : \A j \in keep : i <= j,
                        CHOOSE i \in keep : \A j \in keep : j <= i)
        base == basename(filename)
        sep == Len(filename) - Len(base)
        safe_filename ==
            [i \in 1 .. Len(base) |-> IF base[i] = " " THEN "_" ELSE base[i]]
        \* os.path.join
        full_path ==
            IF StartsWith(safe_filename, <<"/">>) THEN safe_filename
            ELSE IF save_dir = <<>> \/ save_dir[Len(save_dir)] = "/"
                 THEN save_dir \o safe_filename
                 ELSE save_dir \o <<"/">> \o safe_filename
        dots == {i \in 1 .. Len(filename) : filename[i] = "."}
        dot == IF dots = {} THEN 0 ELSE CHOOSE i \in dots : \A j \in dots : j <= i
        \* os.path.splitext: a dot after the last separator that is not one
        \* of the leading dots of the name
        extension ==
            IF dot > sep /\ \E j \in (sep + 1) .. (dot - 1) : filename[j] # "."
            THEN Drop(filename, dot - 1) ELSE <<>>
    IN  [sender |-> author, filename |-> filename, ip_address |-> ip_address,
         port |-> port, filesize |-> filesize, save_dir |-> save_dir,
         safe_filename |-> safe_filename, full_path |-> full_path,
         extension |-> extension,
         is_good |-> TRUE, is_done |-> FALSE,
         progress |-> [hi |-> 0, lo |-> 0],
         pc |-> "new", conn |-> "none",
         received_bytes |-> [hi |-> 0, lo |-> 0],
         f |-> "none", file_len |-> [hi |-> 0, lo |-> 0],
         acks |-> 0, chunks |-> 0, last_ack |-> <<>>, unread |-> 0,
         outcome |-> "none"]

\* no DCC SEND payload has arrived; data holds the groups of DCC_SEND_REGEX
\* once one has
NoDcc == [data |-> <<>>, file |-> [pc |-> "none", conn |-> "none"]]

(***************************************************************************)
(* State.                                                                  *)
(*  running, registered, password, channel_map, commands, prefix_commands, *)
(*  event_handlers, task_registry, cogs : the Bot's fields                 *)
(*  connected, writer, quit_msg : the IRCConnection's fields               *)
(*  _command_registry ... _task_registry : the module globals              *)
(*  aliased[k] : event_handlers[k] and _event_registry[k] are one list     *)
(*  sys_modules, imports : the import cache, and how often each cog module *)
(*      has been executed                                                  *)
(*  pc, idx, line, ctx, is_command_found : where start() and the dispatch  *)
(*      it awaits stand: pc names the handler list being walked, idx the   *)
(*      handler about to be invoked                                        *)
(*  starts : calls of start() so far                                       *)
(*  link : the TCP connection carries data                                 *)
(*  dcc_tasks : dcc handlers launched with create_task and not finished    *)
(*  wire : the lines written to the connection since the line being        *)
(*      dispatched was read (since start() was called, before the first    *)
(*      read), each with who wrote it                                      *)
(*  calls : the handlers invoked for the line being dispatched, each with  *)
(*      the ctx it was passed, what it did, and how many lines were        *)
(*      written before it was invoked                                      *)
(*  src : the line being dispatched, as the server built it                *)
(*  triggered : the line being dispatched set registered                   *)
(*  cog_log : where the cog operations stand in a run of load_cog(c),      *)
(*      unload_cog(c), load_cog(c) that all returned (0, true) with no     *)
(*      other cog operation between them; see LogCogOp                     *)
(*  last_op : the last cog operation: which one (op), on which cog, what   *)
(*      it returned (code, value), whether the cog was loaded when it was  *)
(*      called, and whether it left every registry, the bookkeeping of the *)
(*      cogs and the module cache as they were (kept), or at least left    *)
(*      the same keys and handlers in every registry (same_regs), and how  *)
(*      a load after an unload compares with the first load (repeat)       *)
(*  first_load : kept for the cog operations made before start() is       *)
(*      called.  For each cog, what its first successful load_cog added:   *)
(*      the names recorded in cogs[c] and the names the Bot's registries   *)
(*      gained (delta), and whether the last change of the cog's status    *)
(*      was a successful unload_cog (unloaded); NoFirst before that load   *)
(*  exit_connected : connected when the loop was left                      *)
(*  reads          : the lines read_line has returned in this turn of the  *)
(*                   loop, each with its caller                            *)
(*  drivers : the _run_task coroutines created by start_task, in the order *)
(*      of their creation: the task function f, where the coroutine stands *)
(*      (pc), the values of current_repeat at the invocations of the       *)
(*      handler (seen), and whether the handler has raised                 *)
(*  current_repeat : the attribute current_repeat of each task function    *)
(*  dcc : the DCC SEND payload that has arrived and the DCCFile built from  *)
(*        it, with the position of its start_transfer                       *)
(*  sends : the send_raw calls of the concurrent callers in this turn of   *)
(*          the loop (log, in the order of the calls) and the callers that  *)
(*          wait in writer.drain() (waiting)                                *)
(***************************************************************************)
VARIABLES running, registered, password, channel_map, commands,
          prefix_commands, event_handlers, task_registry, cogs,
          connected, writer, quit_msg,
          _command_registry, _prefix_command_registry, _event_registry,
          _task_registry, aliased, sys_modules, imports,
          pc, idx, line, ctx, is_command_found, starts, link, dcc_tasks,
          wire, calls, src, triggered, cog_log, exit_connected,
          drivers, current_repeat, last_op, first_load, dcc, reads,
          sends

regvars == <<commands, prefix_commands, event_handlers, task_registry,
             _command_registry, _prefix_command_registry, _event_registry,
             _task_registry, aliased>>

cogvars == <<cogs, sys_modules, imports, cog_log, last_op, first_load>>

loopvars == <<running, registered, password, channel_map, connected, writer,
              quit_msg, pc, idx, line, ctx, is_command_found, starts, link,
              dcc_tasks, wire, calls, src, triggered, exit_connected,
              reads>>

taskvars == <<drivers, current_repeat>>

dccvars == <<dcc>>

sendvars == <<sends>>

vars == <<regvars, cogvars, loopvars, taskvars, dccvars, sendvars>>

HandlerPcs == {"on_ready", "on_raw", "command", "prefix", "on_message",
               "on_join", "on_leave", "on_nick"}

(***************************************************************************)
(* The dispatch of one line runs from one handler invocation to the next   *)
(* without giving up control.  d is the part of the state it works on:     *)
(* [pc, idx, ctx, found, wire, connected, spawn].                          *)
(***************************************************************************)
\* send_raw putting its line before what has been written
send_raw_on_newest_first(d, w, up, by, msg) ==
    IF ~d.connected \/ w = "none" THEN d
    ELSE IF up
         THEN [d EXCEPT !.wire = <<[by |-> by, text |-> Strip(msg)]>> \o @]
         ELSE [d EXCEPT !.connected = FALSE]

\* IRCConnection.send_raw on a connection whose writer is w and whose link
\* is up or not: the write and the drain succeed, or fail and clear connected
send_raw_on(d, w, up, by, msg) ==
    IF ~d.connected \/ w = "none" THEN d
    ELSE IF up
         THEN [d EXCEPT !.wire = Append(@, [by |-> by, text |-> Strip(msg)])]
         ELSE [d EXCEPT !.connected = FALSE]

\* IRCConnection.send_raw on the connection as it stands
send_raw(d, by, msg) == send_raw_on(d, writer, link, by, msg)

\* _dispatch_line has returned: back to the head of the loop
FinishLine(d) == [d EXCEPT !.pc = "loop", !.idx = 0]

\* "for handler in self.event_handlers[kind]: await handler(ctx)", standing
\* before the i-th handler
EventLoop(d, kind, i) ==
    IF i <= Len(event_handlers[kind])
    THEN [d EXCEPT !.pc = kind, !.idx = i]
    ELSE FinishLine(d)

\* dispatch_tail that never launches a dcc handler
dispatch_tail_no_launch(d) ==
    IF ~d.found /\ StartsWith(d.ctx.target, <<"#">>)
    THEN EventLoop(d, "on_message", 1)
    ELSE FinishLine(d)

\* _dispatch_message after the prefix loop: the message handlers, or else
\* the scan for a DCC SEND payload
dispatch_tail(d) ==
    IF ~d.found /\ StartsWith(d.ctx.target, <<"#">>)
    THEN EventLoop(d, "on_message", 1)
    ELSE IF DCC_SEND_REGEX(d.ctx.message).found
         THEN FinishLine([d EXCEPT !.spawn = Len(event_handlers["on_dcc"])])
         ELSE FinishLine(d)

\* the loop over self.prefix_commands.items(), standing before entry i: the
\* first entry from i on whose prefix starts the message gets its ctx
RECURSIVE prefix_loop(_, _)
prefix_loop(d, i) ==
    IF i > Len(prefix_commands) THEN dispatch_tail(d)
    ELSE LET prefix_char == prefix_commands[i].key
             args == SplitOnce(d.ctx.message, prefix_char)[2]
             parts == SplitSpace(args)
         IN  IF StartsWith(d.ctx.message, prefix_char)
             THEN [d EXCEPT !.pc = "prefix", !.idx = i,
                            !.ctx.command_name = prefix_char,
                            !.ctx.arg = args,
                            !.ctx.args = IF d.ctx.args # <<>> THEN parts
                                         ELSE <<>>]
             ELSE prefix_loop(d, i + 1)

\* dispatch_command with ctx.args left as Context.__init__ made it
dispatch_command_stale_args(d, parts) ==
    IF parts = <<>> THEN [d EXCEPT !.pc = "crashed"]
    ELSE IF parts[1] \in DOMAIN commands
    THEN [d EXCEPT !.pc = "command", !.idx = 1,
                   !.ctx.command_name = parts[1],
                   !.ctx.arg = IF Len(parts) > 1 THEN parts[2] ELSE <<>>]
    ELSE prefix_loop(d, 1)

\* the command path of _dispatch_message: parts is the text after the
\* command prefix, split once.  parts[0] of an empty list raises IndexError.
dispatch_command(d, parts) ==
    IF parts = <<>> THEN [d EXCEPT !.pc = "crashed"]
    ELSE IF parts[1] \in DOMAIN commands
    THEN [d EXCEPT !.pc = "command", !.idx = 1,
                   !.ctx.command_name = parts[1],
                   !.ctx.arg = IF Len(parts) > 1 THEN parts[2] ELSE <<>>,
                   !.ctx.args = IF Len(parts) > 1 /\ parts[2] # <<>>
                                THEN SplitWs(parts[2]) ELSE <<>>]
    ELSE prefix_loop(d, 1)

\* _dispatch_message up to the first handler it invokes
dispatch_message(d) ==
    IF StartsWith(d.ctx.message, CommandPrefix)
    THEN dispatch_command(d, SplitWsMax1(Strip(Drop(d.ctx.message,
                                                    Len(CommandPrefix)))))
    ELSE prefix_loop(d, 1)

\* dispatch_route that does not tell the Bot's own JOIN, PART and QUIT apart
dispatch_route_own_too(d, p) ==
    IF p.command = <<"PRIVMSG">> THEN dispatch_message(d)
    ELSE IF p.command = <<"JOIN">> THEN EventLoop(d, "on_join", 1)
    ELSE IF p.command \in {<<"PART">>, <<"QUIT">>}
    THEN EventLoop(d, "on_leave", 1)
    ELSE FinishLine(d)

\* the routing of _dispatch_line: d carries the Context built from the
\* parsed line p
dispatch_route(d, p) ==
    IF p.command = <<"PRIVMSG">> THEN dispatch_message(d)
    ELSE IF p.command = <<"JOIN">> /\ p.author_nick # BotNick
    THEN EventLoop(d, "on_join", 1)
    ELSE IF p.command \in {<<"PART">>, <<"QUIT">>} /\ p.author_nick # BotNick
    THEN EventLoop(d, "on_leave", 1)
    ELSE IF p.command = <<"NICK">> /\ p.author_nick # BotNick
    THEN EventLoop(d, "on_nick", 1)
    ELSE FinishLine(d)

\* dispatch_parsed with the PING answered by a bare PONG, its token dropped
dispatch_parsed_bare_pong(d, l, p) ==
    IF p.raises THEN [d EXCEPT !.pc = "crashed"]
    ELSE IF p.command = <<"PING">>
    THEN FinishLine(send_raw(d, "pong", <<"PONG">>))
    ELSE IF p.command \in {<<"PRIVMSG">>, <<"JOIN">>, <<"PART">>, <<"QUIT">>}
    THEN dispatch_route(
             [d EXCEPT !.ctx = Context(p.target, p.author_nick, p.message,
                                       p.command, l),
                       !.found = FALSE], p)
    ELSE FinishLine(d)

\* _dispatch_line after _parse_line has returned p (or raised)
dispatch_parsed(d, l, p) ==
    IF p.raises THEN [d EXCEPT !.pc = "crashed"]
    ELSE IF p.command = <<"PING">>                      \* _handle_protocol
    THEN FinishLine(send_raw(d, "pong", <<"PONG", " ", ":">> \o p.message))
    ELSE IF p.command \in {<<"PRIVMSG">>, <<"JOIN">>, <<"PART">>, <<"QUIT">>}
    THEN dispatch_route(
             [d EXCEPT !.ctx = Context(p.target, p.author_nick, p.message,
                                       p.command, l),
                       !.found = FALSE], p)
    ELSE FinishLine(d)

\* _dispatch_line after the raw handlers: parse, answer PING, route
dispatch_line(d, l) == dispatch_parsed(d, l, _parse_line(l))

\* raw_loop with the raw handlers passed over
raw_loop_skipped(d, l) ==
    dispatch_line([d EXCEPT !.ctx = Context(<<>>, <<>>, l, <<"RAW">>, l)], l)

\* _dispatch_line from its first statement: the raw handlers come first
raw_loop(d, l) ==
    IF Len(event_handlers["on_raw"]) >= 1
    THEN [d EXCEPT !.ctx = Context(<<>>, <<>>, l, <<"RAW">>, l),
                   !.pc = "on_raw", !.idx = 1]
    ELSE dispatch_line([d EXCEPT !.ctx = Context(<<>>, <<>>, l, <<"RAW">>, l)],
                       l)

RECURSIVE join_channels(_, _)
join_channels(d, i) ==
    IF i > Len(channel_map) THEN d
    ELSE LET e == channel_map[i]
             join_cmd == <<"JOIN", " ">> \o e.channel
                         \o (IF e.key # None THEN <<" ">> \o e.key ELSE <<>>)
         IN  join_channels(send_raw(d, "setup", join_cmd), i + 1)

\* _on_ready_protocol_setup with the channels joined before NickServ is
\* addressed
_on_ready_protocol_setup_join_first(d) ==
    LET d1 == join_channels(d, 1)
    IN  IF password # None
        THEN send_raw(d1, "setup",
                      <<"PRIVMSG", " ", "NickServ", " ", ":", "IDENTIFY",
                        " ">> \o password)
        ELSE d1

_on_ready_protocol_setup(d) ==
    LET d1 == IF password # None
              THEN send_raw(d, "setup",
                            <<"PRIVMSG", " ", "NickServ", " ", ":", "IDENTIFY",
                              " ">> \o password)
              ELSE d
    IN  join_channels(d1, 1)

\* _run_on_ready_handlers up to its first handler, or on to _dispatch_line
_run_on_ready_handlers(d, l) ==
    IF Len(event_handlers["on_ready"]) >= 1
    THEN [d EXCEPT !.pc = "on_ready", !.idx = 1]
    ELSE raw_loop(d, l)

\* the handler that stands to be invoked
PendingHandler ==
    CASE pc = "command" -> commands[ctx.command_name]
      [] pc = "prefix" -> prefix_commands[idx].h
      [] OTHER -> event_handlers[pc][idx]

\* the handler at (pc, idx) has returned: on to the next invocation
AfterHandler(d) ==
    CASE pc = "on_ready" ->
            IF idx < Len(event_handlers["on_ready"])
            THEN [d EXCEPT !.idx = idx + 1] ELSE raw_loop(d, line)
      [] pc = "on_raw" ->
            IF idx < Len(event_handlers["on_raw"])
            THEN [d EXCEPT !.idx = idx + 1] ELSE dispatch_line(d, line)
      [] pc = "command" -> prefix_loop([d EXCEPT !.found = TRUE], 1)
      [] pc = "prefix" -> prefix_loop([d EXCEPT !.found = TRUE], idx + 1)
      [] OTHER -> EventLoop(d, pc, idx + 1)

Here ==
    [pc |-> pc, idx |-> idx, ctx |-> ctx, found |-> is_command_found,
     wire |-> wire, connected |-> connected, spawn |-> 0]

Apply(d) ==
    /\ pc' = d.pc
    /\ idx' = d.idx
    /\ ctx' = d.ctx
    /\ is_command_found' = d.found
    /\ wire' = d.wire
    /\ connected' = d.connected
    /\ dcc_tasks' = dcc_tasks + d.spawn

\* the QUIT line without the configured message
QuitLine_bare == <<"QUIT">>

QuitLine ==
    IF quit_msg # None THEN <<"QUIT", " ", ":">> \o quit_msg ELSE <<"QUIT">>

(***************************************************************************)
(* The registries as one record, and the ghost record of cog operations.   *)
(***************************************************************************)
World ==
    [gc |-> _command_registry, gp |-> _prefix_command_registry,
     gt |-> _task_registry, ge |-> _event_registry,
     bc |-> commands, bp |-> prefix_commands, bt |-> task_registry,
     be |-> event_handlers, al |-> aliased,
     cogs |-> cogs, sm |-> sys_modules, im |-> imports, ret |-> NoReturn]

\* the registries as sets: the keys of the dicts, the handlers of each list
RegSets(w) ==
    [commands |-> DOMAIN w.bc, prefix_commands |-> OrdKeys(w.bp),
     tasks |-> DOMAIN w.bt, events |-> [k \in Kinds |-> SeqSet(w.be[k])],
     _commands |-> DOMAIN w.gc, _prefix_commands |-> OrdKeys(w.gp),
     _tasks |-> DOMAIN w.gt, _events |-> [k \in Kinds |-> SeqSet(w.ge[k])]]

\* cog_log after operation op on cog c has taken the registries from w0 to
\* w.  stage 1: load_cog(c) has returned (0, true); stage 2: unload_cog(c)
\* has returned (0, true) right after it; stage 3: load_cog(c) has returned
\* (0, true) right after that.  before holds the registries before the load,
\* recorded the commands that load recorded for c, first the commands the
\* first load of the run recorded.
NoLog ==
    [cog |-> "none", stage |-> 0, before |-> RegSets(EmptyRegistries),
     recorded |-> {}, first |-> {}]

LogCogOp(op, c, w0, w) ==
    IF op = "load" /\ w.ret.code = 0
    THEN IF cog_log.cog = c /\ cog_log.stage = 2
         THEN [cog |-> c, stage |-> 3, before |-> RegSets(w0),
               recorded |-> w.cogs[c].commands, first |-> cog_log.first]
         ELSE [cog |-> c, stage |-> 1, before |-> RegSets(w0),
               recorded |-> w.cogs[c].commands,
               first |-> w.cogs[c].commands]
    ELSE IF /\ op = "unload" /\ w.ret.code = 0
            /\ cog_log.cog = c /\ cog_log.stage \in {1, 3}
    THEN [cog_log EXCEPT !.stage = 2,
                         !.first = IF cog_log.stage = 1 THEN @
                                   ELSE cog_log.recorded]
    ELSE NoLog

NoFirst == [delta |-> <<>>, unloaded |-> FALSE]

HandlerName(h) == [owner |-> h.owner, name |-> h.name]

\* what a load_cog of c that took the registries from w0 to w has added, by
\* name: the entries of cogs[c] and the entries the Bot's registries gained
LoadDelta(c, w0, w) ==
    [commands |-> w.cogs[c].commands,
     prefix_commands |-> w.cogs[c].prefix_commands,
     tasks |-> w.cogs[c].tasks,
     events |-> [k \in Kinds |->
                    [i \in DOMAIN w.cogs[c].events[k] |->
                        HandlerName(w.cogs[c].events[k][i])]],
     bot_commands |-> DOMAIN w.bc \ DOMAIN w0.bc,
     bot_prefix_commands |-> OrdKeys(w.bp) \ OrdKeys(w0.bp),
     bot_tasks |-> DOMAIN w.bt \ DOMAIN w0.bt,
     bot_events |-> [k \in Kinds |->
                        {HandlerName(h) :
                            h \in SeqSet(w.be[k]) \ SeqSet(w0.be[k])}]]

\* operation op has loaded cog c by a load_cog that returned (0, true)
Loads(op, c, w0, w) ==
    /\ op = "load" /\ w.ret.code = 0
    /\ c \notin DOMAIN w0.cogs /\ c \in DOMAIN w.cogs

\* first_load after operation op on cog c
FirstLoad(op, c, w0, w) ==
    IF Loads(op, c, w0, w)
    THEN IF first_load[c] = NoFirst
         THEN [first_load EXCEPT ![c] = [delta |-> LoadDelta(c, w0, w),
                                         unloaded |-> FALSE]]
         ELSE [first_load EXCEPT ![c].unloaded = FALSE]
    ELSE IF first_load[c] = NoFirst THEN first_load
    ELSE IF op = "unload" /\ w.ret.code = 0
    THEN [first_load EXCEPT ![c].unloaded = TRUE]
    ELSE IF op = "reload" /\ (c \in DOMAIN w0.cogs \/ c \in DOMAIN w.cogs)
    THEN [first_load EXCEPT ![c].unloaded = FALSE]
    ELSE first_load

NoOp ==
    [op |-> "none", cog |-> "none", code |-> 0 - 1, value |-> "none",
     loaded |-> FALSE, kept |-> TRUE, same_regs |-> TRUE, repeat |-> "no"]

\* last_op after operation op on cog c has taken the registries from w0 to
\* w; repeat compares a load_cog that follows an unload_cog of the cog with
\* the first load of the cog
LastOp(op, c, w0, w) ==
    [op |-> op, cog |-> c, code |-> w.ret.code, value |-> w.ret.value,
     loaded |-> c \in DOMAIN w0.cogs,
     kept |-> [w EXCEPT !.ret = w0.ret] = w0,
     same_regs |-> RegSets(w) = RegSets(w0),
     repeat |-> IF /\ Loads(op, c, w0, w) /\ first_load[c] # NoFirst
                   /\ first_load[c].unloaded
                THEN IF LoadDelta(c, w0, w) = first_load[c].delta
                     THEN "same" ELSE "differs"
                ELSE "no"]

(***************************************************************************)
(* Bot.start and the main loop.                                            *)
(***************************************************************************)
\* no send_raw call of a concurrent caller yet
NoSends == [log |-> <<>>, waiting |-> {}]

\* the Bot and its connection after construction
Constructed ==
    /\ \E cfg \in Configs : password = cfg.password /\ quit_msg = cfg.quit_msg
    /\ running = FALSE /\ registered = FALSE
    /\ channel_map = <<>>
    /\ commands = BotInit.bc /\ prefix_commands = BotInit.bp
    /\ event_handlers = BotInit.be /\ task_registry = BotInit.bt
    /\ _command_registry = BotInit.gc
    /\ _prefix_command_registry = BotInit.gp
    /\ _event_registry = BotInit.ge /\ _task_registry = BotInit.gt
    /\ aliased = BotInit.al
    /\ cogs = EmptyDict /\ sys_modules = {} /\ imports = [c \in Cogs |-> 0]
    /\ connected = FALSE /\ writer = "none" /\ link = FALSE
    /\ pc = "idle" /\ idx = 0 /\ line = <<>> /\ ctx = NoCtx
    /\ is_command_found = FALSE /\ starts = 0 /\ dcc_tasks = 0
    /\ wire = <<>> /\ calls = <<>> /\ src = NoSource /\ triggered = FALSE
    /\ cog_log = NoLog /\ exit_connected = FALSE
    /\ reads = <<>>
    /\ last_op = NoOp
    /\ first_load = [c \in Cogs |-> NoFirst]
    /\ drivers = <<>>
    /\ current_repeat = [f \in DOMAIN BotInit.gt |-> 0]

Init == Constructed /\ dcc = NoDcc /\ sends = NoSends

\* start() sending NICK before USER
registration_lines_nick_first(d, w, up) ==
    LET d1 == IF password # None
              THEN send_raw_on(d, w, up, "start", <<"PASS", " ">> \o password)
              ELSE d
        d2 == send_raw_on(d1, w, up, "start", <<"NICK", " ">> \o BotNick)
    IN  send_raw_on(d2, w, up, "start",
                    <<"USER", " ">> \o Username
                    \o <<" ", "0", " ", "*", " ", ":">> \o Realname)

\* the lines start() sends before the loop, on the connection (w, up)
registration_lines(d, w, up) ==
    LET d1 == IF password # None
              THEN send_raw_on(d, w, up, "start", <<"PASS", " ">> \o password)
              ELSE d
        d2 == send_raw_on(d1, w, up, "start",
                          <<"USER", " ">> \o Username
                          \o <<" ", "0", " ", "*", " ", ":">> \o Realname)
    IN  send_raw_on(d2, w, up, "start", <<"NICK", " ">> \o BotNick)

\* start() up to the loop: connect if need be (ok: the connection could be
\* made; up: the new connection holds while the first lines are written),
\* then PASS, USER, NICK
Start(ok) ==
    /\ pc \in {"idle", "closed"}
    /\ starts < MaxStarts
    /\ starts' = starts + 1
    /\ IF ~connected /\ ~ok
       THEN /\ connected' = FALSE
            /\ UNCHANGED <<running, channel_map, writer, link, pc, wire>>
       ELSE \E up \in IF connected THEN {link} ELSE BOOLEAN :
              LET w == IF connected THEN writer ELSE "open"
                  d == registration_lines(
                           [Here EXCEPT !.wire = <<>>, !.connected = TRUE],
                           w, up)
              IN  /\ writer' = w
                  /\ link' = up
                  /\ running' = TRUE
                  /\ channel_map' = ChannelMap
                  /\ wire' = d.wire
                  /\ connected' = d.connected
                  /\ pc' = "loop"
    /\ UNCHANGED <<registered, password, quit_msg, idx, line, ctx,
                   is_command_found, dcc_tasks, calls, src, triggered,
                   exit_connected, reads>>
    /\ UNCHANGED <<regvars, cogvars, taskvars, dccvars, sendvars>>

\* "while self.running and self.conn.connected" holds: on to read_line
LoopContinue ==
    /\ pc = "loop"
    /\ running /\ connected
    /\ pc' = "read"
    /\ idx' = 0 /\ line' = <<>> /\ ctx' = NoCtx /\ is_command_found' = FALSE
    /\ wire' = <<>> /\ calls' = <<>> /\ src' = NoSource
    /\ triggered' = FALSE /\ reads' = <<>>
    /\ UNCHANGED <<running, registered, password, channel_map, connected,
                   writer, quit_msg, starts, link, dcc_tasks, exit_connected>>
    /\ UNCHANGED <<regvars, cogvars, taskvars, dccvars, sendvars>>

\* the statements after the loop: running = False, then conn.close();
\* conn_now is connected as the loop is left
Leave(conn_now) ==
    LET d0 == [Here EXCEPT !.wire = <<>>, !.connected = conn_now]
        d1 == send_raw(d0, "close", QuitLine)
    IN  /\ running' = FALSE
        /\ exit_connected' = conn_now
        /\ wire' = IF writer # "none" THEN d1.wire ELSE <<>>
        /\ connected' = IF writer # "none" THEN FALSE ELSE conn_now
        /\ writer' = IF writer # "none" THEN "closed" ELSE writer
        /\ pc' = "closed"
        /\ idx' = 0 /\ line' = <<>> /\ ctx' = NoCtx
        /\ is_command_found' = FALSE /\ calls' = <<>> /\ src' = NoSource
        /\ triggered' = FALSE /\ reads' = <<>>
        /\ UNCHANGED <<registered, password, channel_map, quit_msg, starts,
                       link, dcc_tasks>>
        /\ UNCHANGED <<regvars, cogvars, taskvars, dccvars, sendvars>>

\* the loop condition fails
LoopExit ==
    /\ pc = "loop"
    /\ ~(running /\ connected)
    /\ Leave(connected)

HasDcc(s) ==
    s.raw = None /\ s.trailing # None /\ DCC_SEND_REGEX(s.trailing).found

\* read_line returns a line: the 376 check, then _dispatch_line up to the
\* first handler invocation
ReadLine(s) ==
    /\ pc = "read"
    /\ link
    /\ HasDcc(s) => dcc_tasks + Len(event_handlers["on_dcc"]) <= MaxDccTasks
    /\ LET l == Strip(Render(s))
           first == Contains(l, <<" ", "376", " ">>) /\ ~registered
           d0 == [Here EXCEPT !.wire = <<>>]
           d == IF first
                THEN _run_on_ready_handlers(_on_ready_protocol_setup(d0), l)
                ELSE raw_loop(d0, l)
       IN  /\ line' = l
           /\ src' = s
           /\ reads' = <<[by |-> "loop", text |-> l]>>
           /\ registered' = (registered \/ first)
           /\ triggered' = first
           /\ Apply(d)
    /\ UNCHANGED <<running, password, channel_map, writer, quit_msg, starts,
                   link, calls, exit_connected>>
    /\ UNCHANGED <<regvars, cogvars, taskvars, dccvars, sendvars>>

\* read_line returns None: the server closed the connection or the read
\* failed ("closed"), or the read was cancelled ("cancelled")
ReadNone(how) ==
    /\ pc = "read"
    /\ Leave(IF how = "closed" THEN FALSE ELSE connected)

\* one handler is invoked and does b; the dispatch then runs on to the next
\* invocation.  Only _run_on_ready_handlers catches what a handler raises.
\* A ready handler is passed the Bot, every other handler ctx.
Handler(b) ==
    /\ pc \in HandlerPcs
    /\ calls' = Append(calls, [kind |-> pc, h |-> PendingHandler,
                               ctx |-> IF pc = "on_ready" THEN NoCtx ELSE ctx,
                               did |-> b, at |-> Len(wire)])
    /\ LET d == IF b = "send" THEN send_raw(Here, "handler", HandlerLine)
                ELSE Here
       IN  IF b = "raise" /\ pc # "on_ready"
           THEN Apply([Here EXCEPT !.pc = "crashed"]) /\ running' = running
           ELSE Apply(AfterHandler(d)) /\ running' = (running /\ b # "stop")
    /\ UNCHANGED <<registered, password, channel_map, writer, quit_msg,
                   starts, link, line, src, triggered, exit_connected,
                   reads>>
    /\ UNCHANGED <<regvars, cogvars, taskvars, dccvars, sendvars>>

\* a dcc handler launched with create_task runs to its end
RunDccTask(b) ==
    /\ pc \in HandlerPcs \cup {"read"}
    /\ dcc_tasks > 0
    /\ dcc_tasks' = dcc_tasks - 1
    /\ LET d == IF b = "send" THEN send_raw(Here, "dcc", HandlerLine) ELSE Here
       IN  wire' = d.wire /\ connected' = d.connected
    /\ UNCHANGED <<running, registered, password, channel_map, writer,
                   quit_msg, pc, idx, line, ctx, is_command_found, starts,
                   link, calls, src, triggered, exit_connected, reads>>
    /\ UNCHANGED <<regvars, cogvars, taskvars, dccvars, sendvars>>

\* the TCP connection breaks while a handler runs
LinkDown ==
    /\ pc \in HandlerPcs
    /\ link
    /\ link' = FALSE
    /\ UNCHANGED <<running, registered, password, channel_map, connected,
                   writer, quit_msg, pc, idx, line, ctx, is_command_found,
                   starts, dcc_tasks, wire, calls, src, triggered,
                   exit_connected, reads>>
    /\ UNCHANGED <<regvars, cogvars, taskvars, dccvars, sendvars>>

\* Channel.get_topic as called by the handler at (pc, idx) for the channel
\* of its context, the handler returning after it: the TOPIC request, then
\* read_line on the connection of the loop, which returns the next line s
\* of the server; the split for the topic raises IndexError on a line with
\* the nick and the channel and fewer than two colons
GetTopic(s) ==
    /\ pc \in HandlerPcs \ {"on_ready"}
    /\ LET name == ctx.target
           d == send_raw(Here, "handler", <<"TOPIC", " ">> \o name)
           got == d.connected /\ writer # "none" /\ link
           topic_line == IF got THEN Strip(Render(s)) ELSE <<>>
           raises == /\ Contains(topic_line, BotNick)
                     /\ Contains(topic_line, name)
                     /\ Cardinality(Occurrences(topic_line, <<":">>)) < 2
       IN  /\ reads' = IF got
                       THEN Append(reads, [by |-> "handler",
                                           text |-> topic_line])
                       ELSE reads
           /\ calls' = Append(calls, [kind |-> pc, h |-> PendingHandler,
                                      ctx |-> ctx, did |-> "get_topic",
                                      at |-> Len(wire)])
           /\ IF raises THEN Apply([d EXCEPT !.pc = "crashed"])
              ELSE Apply(AfterHandler(d))
    /\ UNCHANGED <<running, registered, password, channel_map, writer,
                   quit_msg, starts, link, line, src, triggered,
                   exit_connected>>
    /\ UNCHANGED <<regvars, cogvars, taskvars, dccvars, sendvars>>

\* the coroutines that call send_raw while a handler of the main loop runs:
\* that handler, a task driver, a handler launched for a DCC SEND
Callers == {"handler", "task", "dcc"}

\* "await conn.send_raw(msg)" by caller c: writer.write puts the whole line
\* into the transport at once, and drain() returns at once, or (paused: the
\* transport is above its high-water mark) suspends c
SendRaw(c, msg, paused) ==
    /\ pc \in HandlerPcs
    /\ c \notin sends.waiting
    /\ Len(sends.log) < MaxSends
    /\ LET d == send_raw(Here, c, msg)
       IN  /\ wire' = d.wire
           /\ connected' = d.connected
           /\ sends' = [log |-> Append(sends.log,
                                      [by |-> c, msg |-> msg,
                                       connected |-> connected,
                                       writer |-> writer, up |-> link,
                                       at |-> Len(wire)]),
                        waiting |-> IF d.wire # wire /\ paused
                                    THEN sends.waiting \cup {c}
                                    ELSE sends.waiting]
    /\ UNCHANGED <<running, registered, password, channel_map, writer,
                   quit_msg, pc, idx, line, ctx, is_command_found, starts,
                   link, dcc_tasks, calls, src, triggered, exit_connected,
                   reads>>
    /\ UNCHANGED <<regvars, cogvars, taskvars, dccvars>>

\* the transport has sent enough: drain() returns in c
Drained(c) ==
    /\ c \in sends.waiting
    /\ link
    /\ sends' = [sends EXCEPT !.waiting = @ \ {c}]
    /\ UNCHANGED <<regvars, cogvars, loopvars, taskvars, dccvars>>

\* the connection was lost while c waited: drain() raises, send_raw clears
\* connected
DrainRaises(c) ==
    /\ c \in sends.waiting
    /\ ~link
    /\ sends' = [sends EXCEPT !.waiting = @ \ {c}]
    /\ connected' = FALSE
    /\ UNCHANGED <<running, registered, password, channel_map, writer,
                   quit_msg, pc, idx, line, ctx, is_command_found, starts,
                   link, dcc_tasks, wire, calls, src, triggered,
                   exit_connected, reads>>
    /\ UNCHANGED <<regvars, cogvars, taskvars, dccvars>>

(***************************************************************************)
(* The cog operations as steps of the program.  They are called from       *)
(* handlers and tasks, or before start(); here they run while the loop     *)
(* waits for a line or has not been started.  In the runs of CogNext they  *)
(* run while the loop waits for a line.                                    *)
(***************************************************************************)
\* the import of c would execute the module body
Executes(op, c) ==
    \/ c \notin DOMAIN cogs /\ c \notin sys_modules /\ op \in {"load", "reload"}
    \/ c \in DOMAIN cogs /\ c \in sys_modules /\ op = "reload"

CogOp(op, c, n, ok, w) ==
    /\ pc \in {"idle", "read"}
    /\ ok => n = Len(CogScript(c))
    /\ IF Executes(op, c) THEN imports[c] < MaxImports
       ELSE ok
    /\ commands' = w.bc /\ prefix_commands' = w.bp /\ task_registry' = w.bt
    /\ event_handlers' = w.be
    /\ _command_registry' = w.gc /\ _prefix_command_registry' = w.gp
    /\ _task_registry' = w.gt /\ _event_registry' = w.ge
    /\ aliased' = w.al
    /\ cogs' = w.cogs /\ sys_modules' = w.sm /\ imports' = w.im
    /\ cog_log' = LogCogOp(op, c, World, w)
    /\ last_op' = LastOp(op, c, World, w)
    /\ first_load' = IF pc = "idle" THEN FirstLoad(op, c, World, w)
                      ELSE first_load
    /\ UNCHANGED <<loopvars, taskvars, dccvars, sendvars>>

LoadCog(c, n, ok, rev) ==
    CogOp("load", c, n, ok, load_cog(World, c, n, ok, rev))

UnloadCog(c) ==
    CogOp("unload", c, Len(CogScript(c)), TRUE, unload_cog(World, c))

ReloadCog(c, n, ok, rev) ==
    CogOp("reload", c, n, ok, reload_cog(World, c, n, ok, rev))

\* functions that are decorated after the Bot has been built, outside of any
\* cog: one of each registry
LateRegs ==
    { Reg("command", <<"late">>, "late_cmd"),
      Reg("prefix_command", <<"~">>, "late_prefix_cmd"),
      Reg("task", None, "late_task"),
      Reg("on_message", None, "late_listener") }

\* a decorator of Bot runs on a function after the Bot has been built and
\* outside load_cog, unload_cog and reload_cog (each function is decorated
\* once)
Register(r) ==
    LET f == Fn("late", r.name, 0)
        w == Decorate(World, r, f)
    IN  /\ w # World
        /\ r.deco \in Kinds =>
              f \notin SeqSet(_event_registry[r.deco])
                          \cup SeqSet(event_handlers[r.deco])
        /\ commands' = w.bc /\ prefix_commands' = w.bp
        /\ task_registry' = w.bt /\ event_handlers' = w.be
        /\ _command_registry' = w.gc /\ _prefix_command_registry' = w.gp
        /\ _task_registry' = w.gt /\ _event_registry' = w.ge
        /\ aliased' = w.al
        /\ UNCHANGED <<cogvars, loopvars, taskvars, dccvars, sendvars>>

\* the lines of the runs with cog operations
CogSources ==
    {Source(Alice, <<"PRIVMSG">>, Room, m) :
        m \in {<<"!", "foo">>, <<"hello">>, <<"?", "hello">>}}

(***************************************************************************)
(* Bot.start_task and Bot._run_task.  A driver is the coroutine _run_task  *)
(* of one start_task call.  t is the part of the state the drivers work    *)
(* on: [drivers, current_repeat].  current_repeat is an attribute of the   *)
(* task function, so all drivers of one function read and write the same   *)
(* counter.                                                                *)
(***************************************************************************)
TaskState == [drivers |-> drivers, current_repeat |-> current_repeat]

\* the functions start_task is called with: the registered tasks, and a
\* function that was never decorated with @Bot.task
TaskFunctions == DOMAIN BotInit.gt \cup {"unregistered_task"}

\* start_task(task_func)
start_task(t, f) ==
    IF f \notin DOMAIN task_registry THEN t
    ELSE [t EXCEPT !.drivers =
             Append(@, [f |-> f, pc |-> "created", seen |-> <<>>,
                        raised |-> FALSE])]

\* the while loop of _run_task without the test of self.running
run_task_loop_ignores_running(t, i) ==
    IF t.current_repeat[t.drivers[i].f] < MaxRepeat
    THEN [t EXCEPT !.current_repeat[t.drivers[i].f] = @ + 1,
                   !.drivers[i].pc = "handler",
                   !.drivers[i].seen =
                       Append(@, t.current_repeat[t.drivers[i].f] + 1)]
    ELSE [t EXCEPT !.drivers[i].pc = "finished"]

\* the head of the while loop of _run_task, and the statements up to the
\* await of the handler
run_task_loop(t, i) ==
    IF running /\ t.current_repeat[t.drivers[i].f] < MaxRepeat
    THEN [t EXCEPT !.current_repeat[t.drivers[i].f] = @ + 1,
                   !.drivers[i].pc = "handler",
                   !.drivers[i].seen =
                       Append(@, t.current_repeat[t.drivers[i].f] + 1)]
    ELSE [t EXCEPT !.drivers[i].pc = "finished"]

\* _run_task from its first statement
run_task_begin(t, i) ==
    run_task_loop([t EXCEPT !.current_repeat[t.drivers[i].f] = 0], i)

\* _run_task without the break: the error is logged and the loop goes on
run_task_handled_goes_on(t, i, b) ==
    IF b = "raise"
    THEN [t EXCEPT !.drivers[i].pc = "sleep", !.drivers[i].raised = TRUE]
    ELSE [t EXCEPT !.drivers[i].pc = "sleep"]

\* the awaited handler has returned (on to the sleep) or raised (break)
run_task_handled(t, i, b) ==
    IF b = "raise"
    THEN [t EXCEPT !.drivers[i].pc = "finished", !.drivers[i].raised = TRUE]
    ELSE [t EXCEPT !.drivers[i].pc = "sleep"]

ApplyTasks(t) ==
    /\ drivers' = t.drivers
    /\ current_repeat' = t.current_repeat

\* a handler of the main loop calls start_task
StartTask(f) ==
    /\ pc \in HandlerPcs
    /\ Len(drivers) < MaxDrivers
    /\ ApplyTasks(start_task(TaskState, f))
    /\ UNCHANGED <<regvars, cogvars, loopvars, dccvars, sendvars>>

\* a driver runs from one await to the next while the main loop awaits
DriverBegin(i) ==
    /\ pc \in HandlerPcs \cup {"read"}
    /\ drivers[i].pc = "created"
    /\ ApplyTasks(run_task_begin(TaskState, i))
    /\ UNCHANGED <<regvars, cogvars, loopvars, dccvars, sendvars>>

DriverHandler(i, b) ==
    /\ pc \in HandlerPcs \cup {"read"}
    /\ drivers[i].pc = "handler"
    /\ ApplyTasks(run_task_handled(TaskState, i, b))
    /\ UNCHANGED <<regvars, cogvars, loopvars, dccvars, sendvars>>

DriverWake(i) ==
    /\ pc \in HandlerPcs \cup {"read"}
    /\ drivers[i].pc = "sleep"
    /\ ApplyTasks(run_task_loop(TaskState, i))
    /\ UNCHANGED <<regvars, cogvars, loopvars, dccvars, sendvars>>

\* a driver runs from one await to the next after start() has returned (the
\* event loop of the program goes on): it starts, or its awaited handler
\* does b, or its sleep ends
DriverGoesOn(i, b) ==
    /\ pc = "closed"
    /\ drivers[i].pc # "finished"
    /\ ApplyTasks(CASE drivers[i].pc = "created" ->
                          run_task_begin(TaskState, i)
                     [] drivers[i].pc = "handler" ->
                          run_task_handled(TaskState, i, b)
                     [] OTHER -> run_task_loop(TaskState, i))
    /\ UNCHANGED <<regvars, cogvars, loopvars, dccvars, sendvars>>

\* the line of the runs with tasks: the numeric 376, read once or more
TaskSources == { Source(<<"srv">>, <<"376">>, BotNick, <<"End">>) }

(***************************************************************************)
(* DCC: the end of _dispatch_message that builds the DCCFile, and           *)
(* DCCFile.start_transfer with its _transfer_loop, run by an on_dcc handler *)
(* (await file.start_transfer(), with the default parameters).              *)
(***************************************************************************)
\* the file names a payload can carry, up to MaxNameLen characters
FileNames ==
    UNION {[1 .. n -> {"a", " ", "/", ".", "\""}] : n \in 1 .. MaxNameLen}

Octets == {0, 1, 128, 255}

\* str(n): the decimal digits of n
RECURSIVE str(_)
str(n) ==
    IF n.hi = 0 /\ n.lo < 10 THEN <<n.lo>>
    ELSE CHOOSE t \in { Append(str([hi |-> n.hi \div 10, lo |-> r \div 10]),
                               r % 10) :
                           r \in {(n.hi % 10) * 65536 + n.lo} } : TRUE

\* the ip values a payload can carry: below 2^31, up to 2^32 - 1, 2^32 and
\* more, and the numbers of the addresses with octets in Octets
IpTexts ==
    { <<0>>, <<2, 5, 6>>, <<6, 5, 5, 3, 6>>, <<2, 1, 3, 0, 7, 0, 6, 4, 3, 3>>,
      <<3, 2, 3, 2, 2, 3, 5, 5, 2, 1>>, <<4, 2, 9, 4, 9, 6, 7, 2, 9, 5>>,
      <<4, 2, 9, 4, 9, 6, 7, 2, 9, 6>>, <<4, 2, 9, 4, 9, 6, 7, 2, 9, 7>>,
      <<9, 9, 9, 9, 9, 9, 9, 9, 9, 9, 9>>, <<0, 0, 2, 5, 6>> }
    \cup { str([hi |-> a * 256 + b, lo |-> c * 256 + d]) :
             a \in Octets, b \in Octets, c \in Octets, d \in Octets }

\* the file sizes of the transfers: 0 .. MaxFileSize bytes, and 2^32 bytes
FileSizes ==
    {<<n>> : n \in 0 .. MaxFileSize} \cup {<<4, 2, 9, 4, 9, 6, 7, 2, 9, 6>>}

\* a PRIVMSG with a DCC SEND payload is dispatched: dcc_file is built and
\* the on_dcc handler is launched with it
NewDccFile ==
    /\ dcc.file.pc = "none"
    /\ LET data == dcc.data
           ip_long == int(data.ip)
           ip_address == ip_long_to_dotted(ip_long)
       IN  dcc' = [dcc EXCEPT !.file =
                     DCCFile(Alice, data.filename, ip_address, int(data.port),
                             int(data.filesize), <<"downloads">>)]
    /\ UNCHANGED <<regvars, cogvars, loopvars, taskvars, sendvars>>

\* the finally block of start_transfer, up to its await or to the end
finally(F) ==
    IF F.conn = "open"
    THEN [F EXCEPT !.conn = "closing", !.pc = "wait_closed"]
    ELSE [F EXCEPT !.is_done = TRUE, !.pc = "done"]

\* _transfer_loop is left: the with block closes the file
leave_loop(F, outcome) ==
    finally([F EXCEPT !.outcome = outcome,
                      !.f = IF F.f = "open" THEN "closed" ELSE @])

ApplyDcc(F) ==
    /\ dcc' = [dcc EXCEPT !.file = F]
    /\ UNCHANGED <<regvars, cogvars, loopvars, taskvars, sendvars>>

\* the handler calls start_transfer, which awaits open_connection
StartTransfer ==
    /\ dcc.file.pc = "new"
    /\ ApplyDcc([dcc.file EXCEPT !.pc = "connect"])

\* open_connection is over (connected, timeout, refused or another error);
\* once connected, _transfer_loop opens full_path (can_open: open succeeds)
\* and runs up to its first read
Connect(how, can_open) ==
    /\ dcc.file.pc = "connect"
    /\ LET F == dcc.file
           is_dir == F.safe_filename \in {<<>>, <<".">>, <<".", ".">>}
           F1 == [F EXCEPT !.conn = "open"]
           F2 == [F1 EXCEPT !.f = "open", !.pc = "read"]
       IN  ApplyDcc(
             IF how # "ok"
             THEN finally([F EXCEPT !.is_good = FALSE, !.outcome = how])
             ELSE IF is_dir \/ ~can_open THEN leave_loop(F1, "loop_error")
             ELSE IF Less(F.received_bytes, F.filesize) THEN F2
             ELSE leave_loop(F2, "success"))

\* reader.read returned a chunk of n bytes: the body of the loop up to
\* writer.drain (wrote: f.write succeeds)
transfer_chunk(F, n, wrote) ==
    LET received_bytes == Add(F.received_bytes, n)
        ack_message == pack_I(received_bytes)
        G == [F EXCEPT !.chunks = @ + 1,
                       !.file_len = Add(@, n),
                       !.received_bytes = received_bytes]
    IN  IF ~wrote THEN leave_loop(F, "loop_error")
        ELSE IF ~ack_message.ok THEN leave_loop(G, "loop_error")
        ELSE [G EXCEPT !.acks = @ + 1, !.last_ack = ack_message.bytes,
                       !.unread = @ + 1, !.pc = "drain"]

\* received_bytes after RunChunks more full chunks
run_end(F) ==
    LET per == 65536 \div ack_chunk_size
    IN  Add([hi |-> F.received_bytes.hi + RunChunks \div per,
             lo |-> F.received_bytes.lo], (RunChunks % per) * ack_chunk_size)

\* more than RunChunks full chunks are still to be read and acknowledged
far(F) ==
    /\ F.unread = 0 /\ F.received_bytes.lo % ack_chunk_size = 0
    /\ Less(run_end(F), F.filesize) /\ pack_I(run_end(F)).ok

\* one turn of the loop, with a chunk of 1, 2 or ack_chunk_size bytes for a
\* file of at most MaxFileSize bytes and a full chunk for a larger file;
\* the turns of a large file that are far from its end are taken by ReadRun
ReadChunk(n, wrote) ==
    /\ dcc.file.pc = "read" /\ ~far(dcc.file)
    /\ n = ack_chunk_size
         \/ Less(dcc.file.filesize, [hi |-> 0, lo |-> MaxFileSize + 1])
    /\ ApplyDcc(transfer_chunk(dcc.file, n, wrote))

\* RunChunks turns of the loop in one step: each reads a full chunk, writes
\* it, sends its ACK and drains, the sender reading every ACK, and the loop
\* goes on after the last of them
ReadRun ==
    /\ dcc.file.pc = "read" /\ far(dcc.file)
    /\ LET F == dcc.file
           received_bytes == run_end(F)
           multiple == [hi |-> (received_bytes.hi \div 80) * 80, lo |-> 0]
       IN  ApplyDcc([F EXCEPT
                 !.chunks = @ + RunChunks, !.acks = @ + RunChunks,
                 !.last_ack = pack_I(received_bytes).bytes,
                 !.file_len = received_bytes,
                 !.received_bytes = received_bytes,
                 !.progress = IF Less(F.received_bytes, multiple)
                              THEN multiple ELSE @])

\* reader.read returns no data (the sender closed), does not return within
\* 30 s, or raises
ReadEnd(how) ==
    /\ dcc.file.pc = "read"
    /\ ApplyDcc(leave_loop([dcc.file EXCEPT
                   !.conn = IF how = "loop_error" THEN "lost" ELSE @], how))

\* writer.drain returns: the rest of the loop body and the test of the loop
Drain ==
    /\ dcc.file.pc = "drain"
    /\ dcc.file.unread <= AckWindow + HighWater
    /\ LET G == dcc.file
           \* received_bytes % (1024 * 1024 * 5) == 0 or the file is whole
           F == IF (G.received_bytes.lo = 0 /\ G.received_bytes.hi % 80 = 0)
                   \/ G.received_bytes = G.filesize
                THEN [G EXCEPT !.progress = G.received_bytes] ELSE G
       IN  ApplyDcc(
             IF Less(F.received_bytes, F.filesize) THEN [F EXCEPT !.pc = "read"]
             ELSE leave_loop(F, IF F.received_bytes = F.filesize
                                THEN "success" ELSE "size_mismatch"))

\* writer.drain raises: the connection is lost
DrainFails ==
    /\ dcc.file.pc = "drain"
    /\ ApplyDcc(leave_loop([dcc.file EXCEPT !.conn = "lost"], "loop_error"))

\* the sender reads the ACKs it has been sent
SenderReadsAcks ==
    /\ dcc.file.conn \in {"open", "closing"}
    /\ dcc.file.unread > 0
    /\ ApplyDcc([dcc.file EXCEPT !.unread = 0])

\* writer.wait_closed returns once the ACKs are out of the writer's buffer
WaitClosed ==
    /\ dcc.file.pc = "wait_closed"
    /\ dcc.file.unread <= AckWindow
    /\ ApplyDcc([dcc.file EXCEPT !.conn = "closed", !.is_done = TRUE,
                                 !.pc = "done"])

\* the connection is lost while ACKs are in the writer's buffer:
\* writer.wait_closed raises, out of the finally block and of start_transfer
CloseFails ==
    /\ dcc.file.pc = "wait_closed"
    /\ dcc.file.unread > AckWindow
    /\ ApplyDcc([dcc.file EXCEPT !.conn = "lost", !.pc = "raised"])

Next ==
    \/ \E ok \in BOOLEAN : Start(ok)
    \/ LoopContinue
    \/ LoopExit
    \/ \E s \in InputSources : ReadLine(s)
    \/ \E how \in {"closed", "cancelled"} : ReadNone(how)
    \/ \E b \in Behaviours : Handler(b)
    \/ \E b \in {"return", "send"} : RunDccTask(b)
    \/ LinkDown

Spec == Init /\ [][Next]_vars

\* the ways the import of cog c can go: the body runs to its end (in either
\* order of walking the new prefixes, where the cog defines two), or it
\* raises after n of its decorated functions
Imports(c) ==
    LET two == Cardinality({i \in DOMAIN CogScript(c) :
                               CogScript(c)[i].deco = "prefix_command"}) > 1
    IN  {[n |-> Len(CogScript(c)), ok |-> TRUE, rev |-> r] :
            r \in IF two THEN BOOLEAN ELSE {FALSE}}
        \cup {[n |-> k, ok |-> FALSE, rev |-> FALSE] :
                 k \in 0 .. Len(CogScript(c))}

CogNext ==
    \/ Start(TRUE)
    \/ LoopContinue
    \/ \E s \in CogSources : ReadLine(s)
    \/ Handler("return")
    \/ \E c \in Cogs : \E i \in Imports(c) :
          pc = "read" /\ LoadCog(c, i.n, i.ok, i.rev)
    \/ \E c \in Cogs : pc = "read" /\ UnloadCog(c)
    \/ \E c \in Cogs : \E i \in Imports(c) :
          pc = "read" /\ ReloadCog(c, i.n, i.ok, i.rev)

\* the runs with cog operations: a Bot without a password
CogInit == Init /\ password = None

CogSpec == CogInit /\ [][CogNext]_vars

\* the runs with tasks: one call of start(), handlers that return or set
\* running to False
TaskNext ==
    \/ starts = 0 /\ Start(TRUE)
    \/ LoopContinue
    \/ LoopExit
    \/ \E s \in TaskSources : ReadLine(s)
    \/ \E b \in {"return", "stop"} : Handler(b)
    \/ \E f \in TaskFunctions : StartTask(f)
    \/ \E i \in DOMAIN drivers : DriverBegin(i)
    \/ \E i \in DOMAIN drivers, b \in {"return", "raise"} :
          DriverHandler(i, b)
    \/ \E i \in DOMAIN drivers : DriverWake(i)

TaskSpec == CogInit /\ [][TaskNext]_vars

\* a step of a task driver
DriverStep ==
    \E i \in DOMAIN drivers :
        \/ DriverBegin(i)
        \/ \E b \in {"return", "raise"} : DriverHandler(i, b)
        \/ DriverWake(i)
        \/ \E b \in {"return", "raise"} : DriverGoesOn(i, b)

\* the runs in which a handler sets bot.running = False while task drivers
\* run: the server sends PING, the handlers start the tasks
StopNext ==
    \/ starts = 0 /\ Start(TRUE)
    \/ LoopContinue
    \/ LoopExit
    \/ ReadLine(Source(None, <<"PING">>, None, <<"tok">>))
    \/ \E b \in {"return", "stop"} : Handler(b)
    \/ \E f \in DOMAIN BotInit.gt : StartTask(f)
    \/ DriverStep

StopSpec == CogInit /\ [][StopNext]_vars

\* the event loop runs every driver that can run: a created driver starts,
\* an awaited handler ends, a sleep ends; and start() goes from the failed
\* loop condition to the statements after the loop
StopLive == StopSpec /\ WF_vars(DriverStep) /\ WF_vars(LoopExit)

\* the runs of a main script that loads, unloads and reloads cogs before it
\* calls start()
SetupNext ==
    \/ \E c \in Cogs : \E i \in Imports(c) :
          pc = "idle" /\ LoadCog(c, i.n, i.ok, i.rev)
    \/ \E c \in Cogs : pc = "idle" /\ UnloadCog(c)
    \/ \E c \in Cogs : \E i \in Imports(c) :
          pc = "idle" /\ ReloadCog(c, i.n, i.ok, i.rev)

SetupSpec == CogInit /\ [][SetupNext]_vars

\* the lines of the runs with handlers that ask for the topic
TopicSources ==
    { Source(Alice, <<"PRIVMSG">>, Room, <<"hello">>),
      Source(Alice, <<"PRIVMSG">>, Room, <<"!", "hello">>),
      Source(<<"srv">>, <<"332">>, BotNick \o <<" ">> \o Room, <<"topic">>),
      Source(<<"srv">>, <<"MODE">>, Room \o <<" ", "+o", " ">> \o BotNick,
             None),
      Source(<<"srv">>, <<"376">>, BotNick, <<"End">>) }

TopicNext ==
    \/ starts = 0 /\ Start(TRUE)
    \/ LoopContinue
    \/ LoopExit
    \/ \E s \in TopicSources : ReadLine(s)
    \/ \E b \in {"return", "send"} : Handler(b)
    \/ \E s \in TopicSources : GetTopic(s)
    \/ LinkDown

TopicSpec == CogInit /\ [][TopicNext]_vars

\* the messages the concurrent callers send
SendLines == {HandlerLine, <<" ", "PRIVMSG", " ", "#", "x", " ", ":", "hi", " ">>}

\* the runs in which a handler of the main loop, a task driver and a dcc
\* handler call send_raw side by side
SendNext ==
    \/ starts = 0 /\ Start(TRUE)
    \/ LoopContinue
    \/ \E s \in TaskSources \cup CogSources : ReadLine(s)
    \/ \E c \in Callers, msg \in SendLines, paused \in BOOLEAN :
          SendRaw(c, msg, paused)
    \/ \E c \in Callers : Drained(c)
    \/ \E c \in Callers : DrainRaises(c)
    \/ LinkDown

SendSpec == CogInit /\ [][SendNext]_vars

\* the runs of a main script that decorates functions after it has built
\* the Bot, and loads and unloads cogs whose import succeeds
RegNext ==
    \/ \E r \in LateRegs : Register(r)
    \/ \E c \in Cogs : pc = "idle" /\ LoadCog(c, Len(CogScript(c)), TRUE, FALSE)
    \/ \E c \in Cogs : pc = "idle" /\ UnloadCog(c)

RegSpec == CogInit /\ [][RegNext]_vars

\* the DCC SEND payloads: every file name with one ip, every ip with one
\* file name
PayloadInit ==
    /\ Constructed /\ password = None /\ sends = NoSends
    /\ \E name \in FileNames, ip \in IpTexts :
          /\ name = <<"a">> \/ ip = <<2, 1, 3, 0, 7, 0, 6, 4, 3, 3>>
          /\ dcc = [NoDcc EXCEPT
                      !.data = [filename |-> name, ip |-> ip,
                                 port |-> <<5, 0, 0, 0>>, filesize |-> <<3>>]]

\* the DCCFile is built and the handler starts the transfer, up to the
\* opening of full_path
PayloadNext ==
    \/ NewDccFile
    \/ StartTransfer
    \/ \E how \in {"ok", "timeout", "refused", "setup_error"},
          can_open \in BOOLEAN : Connect(how, can_open)

PayloadSpec == PayloadInit /\ [][PayloadNext]_vars

\* the transfers: one file name and ip, every size of FileSizes
DccInit ==
    /\ Constructed /\ password = None /\ sends = NoSends
    /\ \E size \in FileSizes :
          dcc = [NoDcc EXCEPT
                   !.data = [filename |-> <<"a">>,
                             ip |-> <<2, 1, 3, 0, 7, 0, 6, 4, 3, 3>>,
                             port |-> <<5, 0, 0, 0>>, filesize |-> size]]

\* the steps of the task that runs the on_dcc handler
TransferStep ==
    \/ NewDccFile
    \/ StartTransfer
    \/ \E how \in {"ok", "timeout", "refused", "setup_error"},
          can_open \in BOOLEAN : Connect(how, can_open)
    \/ \E n \in {1, 2, ack_chunk_size}, wrote \in BOOLEAN : ReadChunk(n, wrote)
    \/ ReadRun
    \/ \E how \in {"sender_closed", "read_stall", "loop_error"} : ReadEnd(how)
    \/ Drain
    \/ WaitClosed

\* the task of the handler, the sender and the network
DccNext ==
    \/ TransferStep
    \/ DrainFails
    \/ SenderReadsAcks
    \/ CloseFails

DccSpec == DccInit /\ [][DccNext]_vars

\* the event loop runs the task of the handler whenever it can take a step
DccLive == DccSpec /\ WF_vars(TransferStep)

(***************************************************************************)
(* The properties.                                                         *)
(***************************************************************************)
\* the handlers invoked for the line being dispatched, of one kind, in the
\* order of their invocation
IsKind(c, kind) == c.kind = kind

CallsOf(kind) ==
    LET s == SelectSeq(calls, LAMBDA c : IsKind(c, kind))
    IN  [i \in DOMAIN s |-> s[i].h]

\* C1: an error raised inside a command, prefix-command or generic event
\* handler (raw, message, join, leave, nick) is caught at the dispatcher
\* boundary: it does not end the main read loop, which goes on to the
\* remaining handlers and to the next line.
C1_HandlerErrorIsCaught ==
    \A i \in DOMAIN calls :
        (calls[i].did = "raise" /\ calls[i].kind # "on_ready")
            => pc # "crashed"

\* the line being dispatched parses to a PING
PingLine ==
    /\ src # NoSource
    /\ ~_parse_line(line).raises
    /\ _parse_line(line).command = <<"PING">>

\* PONG :<token>, with the token the server put into the PING
PongText == Strip(<<"PONG", " ", ":">> \o OrEmpty(src.trailing))

C4_UnloadRestoresRegistries ==
    cog_log.stage = 2 => RegSets(World) = cog_log.before

\* the line being dispatched is a PRIVMSG to a channel whose text is the
\* command prefix followed by foo
FooLine ==
    /\ src # NoSource
    /\ src.command = <<"PRIVMSG">>
    /\ src.trailing = CommandPrefix \o <<"foo">>

\* the handler is the foo of the latest execution of module c
IsFooOf(h, c) ==
    /\ h.owner = c /\ h.gen = imports[c]
    /\ \E i \in DOMAIN CogScript(c) :
          /\ CogScript(c)[i].deco = "command"
          /\ CogScript(c)[i].key = <<"foo">>
          /\ CogScript(c)[i].name = h.name

\* after load_cog(c) and unload_cog(c) have succeeded, the foo line invokes
\* no command handler and causes no error; after a second successful
\* load_cog(c) it invokes the foo handler of c, once
FooGoneAndBack ==
    /\ cog_log.stage = 2 =>
          (pc # "crashed" /\ CallsOf("command") = <<>>)
    /\ (cog_log.stage = 3 /\ pc = "loop") =>
          /\ Len(CallsOf("command")) = 1
          /\ IsFooOf(CallsOf("command")[1], cog_log.cog)

JoinText(e) ==
    IF e.key # None THEN <<"JOIN", " ">> \o e.channel \o <<" ">> \o e.key
    ELSE <<"JOIN", " ">> \o e.channel

SetupLines ==
    (IF password # None
     THEN << <<"PRIVMSG", " ", "NickServ", " ", ":", "IDENTIFY", " ">>
             \o password >>
     ELSE <<>>)
    \o [i \in DOMAIN channel_map |-> JoinText(channel_map[i])]

\* what the line being dispatched has set off, if it set registered
RegistrationStep ==
    IF triggered
    THEN /\ Len(wire) >= Len(SetupLines)
         /\ \A i \in DOMAIN wire :
               IF i <= Len(SetupLines)
               THEN wire[i] = [by |-> "setup", text |-> SetupLines[i]]
               ELSE wire[i].by # "setup"
         /\ \A i \in DOMAIN calls :
               calls[i].kind = "on_ready" =>
                   /\ calls[i].at >= Len(SetupLines)
                   /\ calls[i].ctx = NoCtx
                   /\ \A j \in 1..(i - 1) : calls[j].kind = "on_ready"
         /\ CallsOf("on_ready")
               = SubSeq(event_handlers["on_ready"], 1,
                        Len(CallsOf("on_ready")))
         /\ pc # "on_ready"
               => CallsOf("on_ready") = event_handlers["on_ready"]
    ELSE /\ \A i \in DOMAIN wire : wire[i].by # "setup"
         /\ CallsOf("on_ready") = <<>>

C7_SetByNumeric376Only ==
    triggered => _parse_line(line).command = <<"376">>

\* the QUIT line as configured
ConfiguredQuit ==
    IF quit_msg = None THEN <<"QUIT">> ELSE <<"QUIT", " ", ":">> \o quit_msg

\* C8 as stated: when the loop has terminated, running is false and the
\* connection is closed with the configured QUIT line written to the server.
C8_ClosedWithQuit ==
    pc = "closed" =>
        /\ ~running /\ ~connected
        /\ wire = <<[by |-> "close", text |-> ConfiguredQuit]>>

\* start() has left the loop: by its condition failing or by read_line
\* returning nothing (pc = "closed"), or by an exception (pc = "crashed")
AfterLoop ==
    /\ pc = "closed" =>
          /\ ~running /\ ~connected /\ writer = "closed"
          /\ \/ wire = <<>>
             \/ /\ exit_connected
                /\ wire = <<[by |-> "close", text |-> ConfiguredQuit]>>
          /\ (exit_connected /\ link) => wire # <<>>
    /\ pc = "crashed" =>
          /\ writer = "open"
          /\ \A i \in DOMAIN wire : wire[i].by # "close"

\* C8 amended: the loop goes on to read a line only while running is true
\* and the connection is open, and otherwise ends; when the loop has ended
\* by its condition failing or by read_line returning nothing, running is
\* false and the connection is closed, and the configured QUIT line is the
\* one line written then, which it is only if the connection was still
\* open when the loop ended; when start() is left by an exception the
\* connection is not closed and no QUIT is written.
C8_LoopExitCloses ==
    /\ []AfterLoop
    /\ [][(pc = "loop" /\ pc' = "read") => (running /\ connected)]_vars
    /\ [][(pc = "loop" /\ ~(running /\ connected)) => pc' = "closed"]_vars

\* the loop has ended with the connection open and QUIT :<message> written
C8_Witness ==
    /\ pc = "closed" /\ exit_connected /\ quit_msg # None
    /\ wire = <<[by |-> "close", text |-> <<"QUIT", " ", ":", "bye">>]>>

\* the text of the line being dispatched after the command prefix, and its
\* first whitespace-delimited token
AfterPrefix == Strip(Drop(src.trailing, Len(CommandPrefix)))

FirstToken == SubSeq(AfterPrefix, 1, RunEnd(AfterPrefix, 1) - 1)

\* the line being dispatched is a PRIVMSG that starts with the command
\* prefix followed by a registered command name
CommandLine ==
    /\ src # NoSource
    /\ src.command = <<"PRIVMSG">>
    /\ StartsWith(src.trailing, CommandPrefix)
    /\ FirstToken \in DOMAIN commands

\* C9: for a PRIVMSG whose text starts with the command prefix and whose
\* first whitespace-delimited token after the prefix is a registered command
\* name, that command's handler is invoked exactly once (once the dispatch
\* has come to the command, and no more than once at any time) with
\* ctx.command_name = the name, ctx.arg = everything after the first token
\* (empty when there is nothing), ctx.args = the whitespace split of
\* ctx.arg, ctx.author = the sender's nick and ctx.target = the target.
C9_CommandContext ==
    /\ CommandLine =>
          /\ Len(CallsOf("command")) <= 1
          /\ pc \in {"command", "prefix", "on_message", "loop"}
                => Len(CallsOf("command")) = (IF pc = "command" THEN 0 ELSE 1)
    /\ \A i \in DOMAIN calls :
          calls[i].kind = "command" =>
              /\ CommandLine
              /\ calls[i].h = commands[FirstToken]
              /\ calls[i].ctx.command_name = FirstToken
              /\ calls[i].ctx.arg
                    = LStrip(Drop(AfterPrefix, Len(FirstToken)))
              /\ calls[i].ctx.args = SplitWs(calls[i].ctx.arg)
              /\ calls[i].ctx.author = <<"alice">>
              /\ calls[i].ctx.target = src.middle
              /\ calls[i].ctx.message = src.trailing

\* the command hello has been invoked with two arguments
C9_Witness ==
    /\ CommandLine /\ pc = "loop"
    /\ Len(calls) > 1
    /\ calls[2].kind = "command"
    /\ calls[2].ctx.command_name = <<"hello">>
    /\ calls[2].ctx.arg = <<"hello", " ", ">">>
    /\ calls[2].ctx.args = << <<"hello">>, <<">">> >>

\* C10: each prefix-command handler that fires for a PRIVMSG with text msg
\* is invoked with ctx.command_name = its prefix, ctx.arg = msg[len(prefix):]
\* and ctx.args = ctx.arg.split(' '), whatever ctx.args held before, also
\* when a command handler has already fired for the same message.
C10_PrefixContext ==
    \A i \in DOMAIN calls :
        calls[i].kind = "prefix" =>
            \E j \in DOMAIN prefix_commands :
                /\ prefix_commands[j].h = calls[i].h
                /\ calls[i].ctx.command_name = prefix_commands[j].key
                /\ calls[i].ctx.arg
                      = Drop(src.trailing, Len(prefix_commands[j].key))
                /\ calls[i].ctx.args = SplitSpace(calls[i].ctx.arg)

\* the line being dispatched is a PRIVMSG, as the server built it; its text
\* is src.trailing
PrivmsgLine == src # NoSource /\ src.command = <<"PRIVMSG">>

\* the dispatch of the line has ended, by returning or by an exception, and
\* no handler invoked for it has raised
DispatchOver ==
    /\ pc \in {"loop", "crashed"}
    /\ \A i \in DOMAIN calls : calls[i].did # "raise"

\* the handlers of the registered prefix-commands whose prefix starts msg,
\* in registration order
IsPrefixOf(e, msg) == StartsWith(msg, e.key)

MatchingPrefixHandlers(msg) ==
    LET s == SelectSeq(prefix_commands, LAMBDA e : IsPrefixOf(e, msg))
    IN  [i \in DOMAIN s |-> s[i].h]

\* C11: for a PRIVMSG with text msg, every registered prefix-command whose
\* prefix is a string-prefix of msg fires, in registration order, also when
\* one matching prefix is a string-prefix of another, and independently of
\* the command path: a command handler that fires runs first and the
\* prefix-command handlers run as well.
C11_AllMatchingPrefixesFire ==
    (PrivmsgLine /\ DispatchOver) =>
        /\ CallsOf("prefix") = MatchingPrefixHandlers(src.trailing)
        /\ \A i, j \in DOMAIN calls :
              (calls[i].kind = "command" /\ calls[j].kind = "prefix") => i < j

\* a command or prefix-command handler has been invoked for the line
CommandFired ==
    \E i \in DOMAIN calls : calls[i].kind \in {"command", "prefix"}

\* C12: the message handlers are invoked for a PRIVMSG exactly when no
\* command and no prefix-command fired for it and its target begins with #;
\* for a private message and for a message that fired a command or
\* prefix-command, no message handler is invoked.
C12_MessageFallback ==
    (PrivmsgLine /\ DispatchOver) =>
        CallsOf("on_message")
            = (IF ~CommandFired /\ StartsWith(src.middle, <<"#">>)
               THEN event_handlers["on_message"] ELSE <<>>)

\* the line being dispatched is a PRIVMSG whose text contains a DCC SEND
\* payload
DccLine == PrivmsgLine /\ Contains(src.trailing, DccPayload)

\* the message-handler fallback does not run for the line: a command or
\* prefix-command fired, or the target is not a channel
FallbackSkipped == CommandFired \/ ~StartsWith(src.middle, <<"#">>)

\* C13: when the dispatch of a line returns, every dcc handler has been
\* launched as a task of its own if the line is a PRIVMSG on which the
\* message-handler fallback did not run and whose text contains a DCC SEND
\* payload, and no dcc handler has been launched otherwise (so none for a
\* channel message with no command or prefix-command match); dcc handlers
\* are launched at no other time, and the dispatch returns to the loop
\* without any of them having run.
C13_DccHandlersLaunched ==
    /\ [][(pc \in HandlerPcs \cup {"read"} /\ pc' = "loop")
             => dcc_tasks' = dcc_tasks
                    + (IF DccLine' /\ FallbackSkipped'
                       THEN Len(event_handlers["on_dcc"]) ELSE 0)]_vars
    /\ [][dcc_tasks' > dcc_tasks
             => (pc \in HandlerPcs \cup {"read"} /\ pc' = "loop")]_vars

\* a dcc handler launched for an earlier line has not finished while a
\* raw handler is about to run for a later line
C13_Witness ==
    /\ dcc_tasks > 0
    /\ pc = "on_raw"
    /\ src # NoSource /\ ~DccLine

\* C14: for every inbound NICK line whose author nick differs from the
\* Bot's own nick, every nick handler is invoked, with a Context that
\* carries the old nick in author and the new nick in message.
C14_NickHandlersInvoked ==
    (/\ src # NoSource /\ src.command = <<"NICK">> /\ src.prefix = Alice
     /\ DispatchOver)
        => /\ CallsOf("on_nick") = event_handlers["on_nick"]
           /\ \A i \in DOMAIN calls :
                 calls[i].kind = "on_nick" =>
                     /\ calls[i].ctx.author = <<"alice">>
                     /\ calls[i].ctx.message = src.trailing

\* the handlers of one kind that the line being dispatched is to invoke:
\* all of them if the line's command is one of cmds and its author is not
\* the Bot, none otherwise
DueFor(kind, cmds) ==
    IF /\ src # NoSource /\ src.raw = None /\ src.command \in cmds
       /\ (src.prefix = None \/ SplitOnce(src.prefix, <<"!">>)[1] # BotNick)
    THEN event_handlers[kind] ELSE <<>>

\* C15: for a JOIN line all join handlers are invoked, and for a PART or
\* QUIT line all leave handlers are invoked, exactly when the author nick
\* differs from the Bot's own nick; the Bot's own JOIN, PART and QUIT invoke
\* no join or leave handler (nor does any other line).
C15_JoinLeaveHandlers ==
    DispatchOver =>
        /\ CallsOf("on_join") = DueFor("on_join", {<<"JOIN">>})
        /\ CallsOf("on_leave") = DueFor("on_leave", {<<"PART">>, <<"QUIT">>})

\* another user's QUIT has been dispatched to the leave handler
C15_Witness ==
    /\ pc = "loop"
    /\ src # NoSource /\ src.command = <<"QUIT">> /\ src.prefix = Alice
    /\ Len(CallsOf("on_leave")) = 1
    /\ calls[Len(calls)].did = "return"

\* the values of current_repeat a driver is to see: 1, 2, ..., max_repeat
FullCount == [k \in 1 .. MaxRepeat |-> k]

\* driver i has left its loop although running is true and its handler
\* never raised (running is set to True once, by start(), before any driver
\* exists: true now means true during the whole life of the driver)
RanToEnd(i) ==
    /\ drivers[i].pc = "finished"
    /\ ~drivers[i].raised
    /\ running

\* C16: a driver started with start_task whose handler never raises, with
\* running true throughout, invokes the handler exactly max_repeat times and
\* sees current_repeat = 1, 2, ..., max_repeat on the successive invocations
\* before it terminates.
C16_TaskRunsMaxRepeatTimes ==
    \A i \in DOMAIN drivers : RanToEnd(i) => drivers[i].seen = FullCount

\* C17: a handler that raises ends its own driver and nothing else: in the
\* step of the raise the other drivers, the counters, the main loop and the
\* connection are unchanged, and the ended driver never changes again
\* (no further invocation).
C17_RaiseEndsOnlyItsDriver ==
    /\ [][\A i \in DOMAIN drivers :
             (~drivers[i].raised /\ drivers'[i].raised)
                 => /\ drivers[i].pc = "handler"
                    /\ drivers'[i] = [drivers[i] EXCEPT !.pc = "finished",
                                                        !.raised = TRUE]
                    /\ \A j \in DOMAIN drivers \ {i} :
                          drivers'[j] = drivers[j]
                    /\ current_repeat' = current_repeat
                    /\ UNCHANGED <<regvars, cogvars, loopvars>>]_vars
    /\ [][\A i \in DOMAIN drivers :
             drivers[i].raised => drivers'[i] = drivers[i]]_vars

\* one driver has ended on a raise before its last repeat; the other one has
\* been invoked after that and the main loop is reading from an open
\* connection
C17_Witness ==
    /\ pc = "read" /\ running /\ connected
    /\ \E i, j \in DOMAIN drivers :
          /\ i # j
          /\ drivers[i].raised /\ Len(drivers[i].seen) < MaxRepeat
          /\ drivers[j].pc = "handler" /\ ~drivers[j].raised
          /\ drivers[j].f # drivers[i].f

\* the registration lines as start() is to write them
StartLines ==
    (IF password # None
     THEN <<[by |-> "start", text |-> <<"PASS", " ">> \o password]>>
     ELSE <<>>)
    \o <<[by |-> "start",
          text |-> <<"USER", " ">> \o Username
                   \o <<" ", "0", " ", "*", " ", ":">> \o Realname],
         [by |-> "start", text |-> <<"NICK", " ">> \o BotNick]>>

\* a step of start() on a Bot whose connection is not open
StartStep == starts' # starts /\ ~connected

\* start() could not connect: it has returned, nothing is written, running
\* is still false
ConnectFailed ==
    (StartStep /\ pc' # "loop")
        => /\ pc' = pc /\ wire' = wire
           /\ ~running /\ ~running' /\ ~connected'

\* C18 as stated: start() on a Bot whose connection is not open connects;
\* when connecting fails it returns with no line sent and running still
\* false; otherwise PASS (only with a password), USER and NICK are sent in
\* this order, before a line is read.
C18_StartSendsRegistration ==
    /\ [][ConnectFailed]_vars
    /\ [][(StartStep /\ pc' = "loop")
             => /\ wire' = StartLines
                /\ running' /\ line' = <<>> /\ src' = NoSource]_vars

\* C18, amended: as stated when the writes to the new connection succeed;
\* when they fail nothing is written, the connection is marked closed and
\* the loop ends without reading a line.
C18_StartSendsRegistrationIfUp ==
    /\ [][ConnectFailed]_vars
    /\ [][(StartStep /\ pc' = "loop")
             => /\ running' /\ line' = <<>> /\ src' = NoSource
                /\ IF link'
                   THEN wire' = StartLines /\ connected'
                   ELSE wire' = <<>> /\ ~connected']_vars
    /\ [][(pc = "loop" /\ ~connected) => pc' = "closed"]_vars

\* start() has connected a Bot with a password and written PASS, USER and
\* NICK; no line has been read yet
C18_Witness ==
    /\ pc = "loop" /\ src = NoSource /\ starts = 1
    /\ running /\ connected
    /\ password # None
    /\ Len(wire) = 3
    /\ wire[1].text = <<"PASS", " ">> \o password
    /\ wire[3].text = <<"NICK", " ">> \o BotNick

\* the last cog operation returned (1, false) and changed nothing
RefusedAndKept ==
    /\ last_op.code = 1 /\ last_op.value = "False"
    /\ last_op.kept

\* C19: load_cog on a cog that is loaded and unload_cog on a cog that is not
\* loaded return (1, false) and leave the Bot's registries, the process-wide
\* registries and the bookkeeping of the cogs unchanged.
C19_RefusedCogCallsChangeNothing ==
    /\ (last_op.op = "load" /\ last_op.loaded) => RefusedAndKept
    /\ (last_op.op = "unload" /\ ~last_op.loaded) => RefusedAndKept

\* load_cog has been called on a loaded cog whose command is registered
C19_Witness ==
    /\ last_op.op = "load" /\ last_op.loaded /\ last_op.code = 1
    /\ last_op.cog \in DOMAIN cogs
    /\ cogs[last_op.cog].commands # {}
    /\ cogs[last_op.cog].commands \subseteq DOMAIN commands

\* unload_cog has been called on a cog that is not loaded, with the other
\* cog loaded
UnloadOfUnloadedCog ==
    /\ last_op.op = "unload" /\ ~last_op.loaded /\ last_op.code = 1
    /\ last_op.cog \notin DOMAIN cogs
    /\ cogs # EmptyDict

\* what load_cog(c) recorded for c is in the Bot's registries
RecordedInBot(c) ==
    /\ cogs[c].commands \subseteq DOMAIN commands
    /\ cogs[c].prefix_commands \subseteq OrdKeys(prefix_commands)
    /\ cogs[c].tasks \subseteq DOMAIN task_registry
    /\ \A k \in Kinds :
          SeqSet(cogs[c].events[k]) \subseteq SeqSet(event_handlers[k])

\* reload_cog has been called on a cog that was not loaded
ReloadedAsLoad == last_op.op = "reload" /\ ~last_op.loaded

\* C20: reload_cog on a cog that is not loaded performs a load of the cog
\* and returns (1, false) whatever the load did; when the load succeeded the
\* cog is loaded afterwards and its registrations are in the Bot's
\* registries.
C20_ReloadOfUnloadedCogLoads ==
    /\ ReloadedAsLoad =>
          /\ last_op.code = 1 /\ last_op.value = "False"
          /\ last_op.cog \in DOMAIN cogs => RecordedInBot(last_op.cog)
    /\ \A c \in Cogs \ DOMAIN cogs : \A i \in Imports(c) :
          [reload_cog(World, c, i.n, i.ok, i.rev) EXCEPT !.ret = NoReturn]
              = [load_cog(World, c, i.n, i.ok, i.rev) EXCEPT !.ret = NoReturn]

\* load_cog has been called on a cog that was not loaded and the import has
\* raised
LoadFailed ==
    last_op.op = "load" /\ ~last_op.loaded /\ last_op.code = 2

\* C21: a load_cog whose import raises returns (2, error), does not record
\* the cog, removes the module from the import cache and leaves every
\* registry with the keys and handlers it had before the call.
C21_FailedLoadLeavesNothing ==
    LoadFailed =>
        /\ last_op.value = "error"
        /\ last_op.cog \notin DOMAIN cogs
        /\ last_op.cog \notin sys_modules
        /\ last_op.same_regs

\* C22: a load_cog(X) that follows an unload_cog(X) adds the same names as
\* the first load_cog(X) did, to the Bot's registries and to cogs[X],
\* whatever cog operations happened in between (cog operations made before
\* start() is called).
C22_ReloadedDeltaAsFirst ==
    last_op.repeat # "differs"

\* C23: start_transfer raises nothing into its caller, and once it has been
\* called it ends, however the transfer goes; when it has ended is_done is
\* true and the side-channel connection is closed (or was never opened).
C23_TransferAlwaysEnds ==
    /\ [](dcc.file.pc # "raised")
    /\ (dcc.file.pc = "connect") ~> (dcc.file.pc = "done")
    /\ [](dcc.file.pc = "done"
            => dcc.file.is_done /\ dcc.file.conn \in {"none", "closed", "lost"})

\* the transfer failed in one of the ways of the claim
TransferFailed ==
    dcc.file.outcome \in {"refused", "timeout", "setup_error", "read_stall",
                          "sender_closed", "size_mismatch", "loop_error"}

\* C24: after a transfer that failed (connection refused, connect timeout,
\* read stall, size mismatch, transfer error) is_done is true and is_good is
\* false; after a transfer that received exactly filesize bytes is_done is
\* true and is_good is true.
C24_OutcomeInDccFile ==
    dcc.file.pc = "done"
        => /\ dcc.file.is_done
           /\ TransferFailed => ~dcc.file.is_good
           /\ dcc.file.outcome = "success"
                => dcc.file.is_good
                   /\ dcc.file.received_bytes = dcc.file.filesize

\* the unsigned integer of four bytes in big-endian order
AckValue(b) == [hi |-> b[1] * 256 + b[2], lo |-> b[3] * 256 + b[4]]

\* C25: after each non-empty chunk (read and written to the file) exactly
\* one ACK of four bytes has been written, its value is the number of bytes
\* received so far, and each ACK is greater than the one before it; for
\* every filesize, 2^32 bytes and more included.
C25_OneAckPerChunk ==
    /\ [](dcc.file.pc \in {"read", "drain", "wait_closed", "done"}
            => /\ dcc.file.acks = dcc.file.chunks
               /\ dcc.file.acks > 0
                    => /\ Len(dcc.file.last_ack) = 4
                       /\ AckValue(dcc.file.last_ack) = dcc.file.received_bytes)
    /\ [][(dcc.file.pc # "none" /\ dcc'.file.acks > dcc.file.acks
           /\ dcc.file.acks > 0)
            => Less(AckValue(dcc.file.last_ack), AckValue(dcc'.file.last_ack))]_vars

\* names that are no entry of a directory: the directory itself or its parent
DotNames == {<<>>, <<".">>, <<".", ".">>}

\* safe_filename is the part of the unquoted file name after its last "/",
\* with "_" for every space; it holds no "/" and no space; full_path is
\* save_dir, "/" and safe_filename
SafeNameAndPath ==
    LET F == dcc.file
        name == F.filename
        safe == F.safe_filename
        off == Len(name) - Len(safe)
    IN  /\ off >= 0
        /\ off > 0 => name[off] = "/"
        /\ \A i \in 1 .. Len(safe) :
              /\ safe[i] \notin {"/", " "}
              /\ safe[i] = IF name[off + i] = " " THEN "_" ELSE name[off + i]
        /\ F.full_path = F.save_dir \o <<"/">> \o safe

\* C26 as stated: for every file name of a payload, safe_filename is the
\* basename of the name with spaces replaced by _, without path separator
\* and space, and full_path is save_dir joined with safe_filename and names
\* a file inside save_dir.
C26_PathInsideSaveDir ==
    dcc.file.pc # "none"
        => SafeNameAndPath /\ dcc.file.safe_filename \notin DotNames

\* C26: for every file name of a payload, safe_filename is the basename of
\* the unquoted name with spaces replaced by _, without path separator and
\* space, and full_path is save_dir joined with safe_filename; a file is
\* opened for writing only when full_path names an entry of save_dir (for
\* the names whose basename is empty, "." or ".." full_path is save_dir or
\* its parent, and no file is opened).
C26_SafeNameAndOpenedPath ==
    dcc.file.pc # "none"
        => /\ SafeNameAndPath
           /\ dcc.file.f # "none" => dcc.file.safe_filename \notin DotNames

\* a quoted name with a directory part and a space has been received and
\* its file opened
C26_Witness ==
    /\ dcc.data.filename = <<"\"", "/", " ", "\"">>
    /\ dcc.file.pc = "read" /\ dcc.file.f = "open"
    /\ dcc.file.safe_filename = <<"_">>

\* the number of four bytes in big-endian order
LongOf(q) == [hi |-> q[1] * 256 + q[2], lo |-> q[3] * 256 + q[4]]

\* C27: for every ip of a payload, ip_address is a.b.c.d with a, b, c, d in
\* 0..255 the four bytes, in big-endian order, of the (low 32 bits of the)
\* integer; and the integer of any a.b.c.d with octets in 0..255, sent as
\* the ip of a payload, gives a.b.c.d again.
C27_DottedQuad ==
    dcc.file.pc # "none"
        => LET ip_long == int(dcc.data.ip)
               q == dcc.file.ip_address
           IN  /\ Len(q) = 4 /\ \A i \in 1 .. 4 : q[i] \in 0 .. 255
               /\ LongOf(q) = [hi |-> ip_long.hi % 65536, lo |-> ip_long.lo]
               /\ \A a \in Octets, b \in Octets, c \in Octets, d \in Octets :
                     dcc.data.ip = str(LongOf(<<a, b, c, d>>))
                         => q = <<a, b, c, d>>

\* 128.0.1.255 has been sent as 2147484159
C27_Witness ==
    /\ dcc.file.pc = "new"
    /\ dcc.data.ip = <<2, 1, 4, 7, 4, 8, 4, 1, 5, 9>>
    /\ dcc.file.ip_address = <<128, 0, 1, 255>>

\* the line being dispatched cannot be parsed: IRC_RE does not match it, or
\* _parse_line fails on it
Unparsed ==
    src # NoSource /\ (~IRC_RE(line).matched \/ _parse_line(line).raises)

\* C28: for every line handed to the dispatcher every raw handler is
\* invoked, in registration order, before the line is parsed and before any
\* other handler for that line, with a Context whose command_type is RAW,
\* whose full_line is the line and whose target and author are empty; a
\* line that cannot be parsed goes to the raw handlers and to no other
\* handler of the dispatcher, and does not abort the loop.
C28_RawHandlersFirst ==
    (src # NoSource /\ \A i \in DOMAIN calls : calls[i].did # "raise")
        => /\ \A i \in DOMAIN calls, j \in DOMAIN calls :
                 (i < j /\ calls[j].kind = "on_raw")
                     => calls[i].kind \in {"on_ready", "on_raw"}
           /\ \A i \in DOMAIN calls :
                 calls[i].kind = "on_raw"
                     => /\ calls[i].ctx.command_type = <<"RAW">>
                        /\ calls[i].ctx.full_line = line
                        /\ calls[i].ctx.target = <<>>
                        /\ calls[i].ctx.author = <<>>
           /\ pc \notin {"on_ready", "on_raw"}
                 => CallsOf("on_raw") = event_handlers["on_raw"]
           /\ Unparsed
                 => /\ \A i \in DOMAIN calls :
                          calls[i].kind \in {"on_ready", "on_raw"}
                    /\ pc # "crashed"

(***************************************************************************)
(* C29: inbound lines are dispatched in the order they are received: every *)
(* line read from the connection is dispatched, and the handlers of one    *)
(* line have all returned before the next line is read, also when a        *)
(* handler calls Channel.get_topic.  In one turn of the loop at most one   *)
(* line is read, by the loop, and it is the line that is dispatched; read  *)
(* happens only at the head of the loop, with no handler pending.          *)
(***************************************************************************)
C29_EveryLineReadIsDispatched ==
    /\ [](\A i \in DOMAIN reads :
              i = 1 /\ reads[i].by = "loop" /\ reads[i].text = line)
    /\ [][reads' # reads /\ reads' # <<>> => pc = "read"]_vars

(***************************************************************************)
(* C30: the lines that concurrent callers (a handler of the main loop, a   *)
(* task driver, a dcc handler) send reach the connection whole and in the  *)
(* order of their send_raw calls, and a send_raw on a connection that is   *)
(* not open writes nothing.  For every call in the order of the calls: if  *)
(* the connection was open (connected, with a writer, the link up) the     *)
(* line, stripped, is the one next line written after all that was written *)
(* before the call, under the caller's name; if not, nothing is written.   *)
(***************************************************************************)
C30_LinesWholeInCallOrder ==
    \A i \in DOMAIN sends.log :
      LET e == sends.log[i]
          next_at == IF i < Len(sends.log) THEN sends.log[i + 1].at
                     ELSE Len(wire)
      IN  IF e.connected /\ e.writer # "none" /\ e.up
          THEN /\ next_at = e.at + 1
               /\ wire[e.at + 1] = [by |-> e.by, text |-> Strip(e.msg)]
          ELSE next_at = e.at

\* two callers have written one after the other, one of them still waits in
\* drain(), and a third call found the connection not open
C30_Witness ==
    /\ Len(sends.log) = 3
    /\ sends.waiting # {}
    /\ sends.log[1].by # sends.log[2].by
    /\ Len(wire) = sends.log[1].at + 2
    /\ sends.log[1].msg # Strip(sends.log[1].msg)
    /\ ~sends.log[3].connected

\* the step is a load_cog that has returned (0, true) for a cog that was not
\* loaded
LoadStep ==
    /\ last_op'.op = "load" /\ last_op'.code = 0
    /\ last_op'.cog \notin DOMAIN cogs /\ last_op'.cog \in DOMAIN cogs'

\* C31: after load_cog(X) has returned (0, true), the entries the Bot's
\* registries have gained through the load (command names, prefix strings,
\* task names and the handlers of each kind that are there after and were
\* not there before it) are exactly the entries recorded in cogs[X], also
\* when X defines a handler with the name of an earlier handler of the kind.
C31_GainedIsRecorded ==
    [][LoadStep =>
          LET X == last_op'.cog
          IN  /\ DOMAIN commands' \ DOMAIN commands = cogs'[X].commands
              /\ OrdKeys(prefix_commands') \ OrdKeys(prefix_commands)
                    = cogs'[X].prefix_commands
              /\ DOMAIN task_registry' \ DOMAIN task_registry
                    = cogs'[X].tasks
              /\ \A k \in Kinds :
                    SeqSet(event_handlers'[k]) \ SeqSet(event_handlers[k])
                        = SeqSet(cogs'[X].events[k])]_vars

\* no element occurs twice in the list
NoRepeat(list) ==
    \A i, j \in DOMAIN list : list[i] = list[j] => i = j

\* C32: in every state reached by load_cog, unload_cog and reload_cog no
\* handler is more than once in the handler list of one event kind, in the
\* Bot's registry and in the process-wide registry, so that one event
\* invokes each handler at most once.
C32_NoHandlerTwiceInAKind ==
    \A k \in Kinds :
        NoRepeat(event_handlers[k]) /\ NoRepeat(_event_registry[k])

\* what the Bot dispatches on and what it has recorded for cog c: the
\* command names, the prefix strings, the task names, the handler list of
\* each kind, and cogs[c]
BotView(w, c) ==
    [commands |-> DOMAIN w.bc, prefix_commands |-> OrdKeys(w.bp),
     tasks |-> DOMAIN w.bt, events |-> w.be,
     cog |-> IF c \in DOMAIN w.cogs THEN w.cogs[c] ELSE None]

\* C33: for a loaded cog X a reload_cog(X) that returns (0, true) leaves the
\* Bot's registries and cogs[X] as unload_cog(X) followed by load_cog(X)
\* would: the same command names, prefix strings, task names and handler
\* sequences of each kind.
C33_ReloadIsUnloadThenLoad ==
    \A X \in DOMAIN cogs : \A i \in Imports(X) :
        LET reloaded == reload_cog(World, X, i.n, i.ok, i.rev)
            loaded == load_cog(unload_cog(World, X), X, i.n, i.ok, i.rev)
        IN  reloaded.ret.code = 0 =>
                BotView(reloaded, X) = BotView(loaded, X)

\* C34: the Bot's four registries are copies taken at construction, changed
\* afterwards only by the Bot's load_cog, unload_cog and reload_cog: a
\* registration made on the process-wide registries after construction and
\* outside these operations changes none of the Bot's commands,
\* prefix_commands, tasks and event-handler sequences.
C34_LateRegistrationLeavesBot ==
    [][(\E r \in LateRegs : Register(r)) =>
          UNCHANGED <<commands, prefix_commands, task_registry,
                      event_handlers>>]_vars

(***************************************************************************)
(* C35: after bot.running has been set to false every task driver stops at *)
(* its next loop check: it finishes the handler invocation or the sleep in *)
(* progress, invokes its handler no more, and terminates.  While running   *)
(* is false no driver starts an invocation, a driver that leaves its sleep *)
(* or starts is finished, and in the end every driver is finished.         *)
(***************************************************************************)
C35_DriversStopWhenNotRunning ==
    /\ [][~running =>
             \A i \in DOMAIN drivers :
                 /\ drivers'[i].seen = drivers[i].seen
                 /\ drivers'[i] # drivers[i] =>
                       IF drivers[i].pc = "handler"
                       THEN drivers'[i].pc \in {"sleep", "finished"}
                       ELSE drivers'[i].pc = "finished"]_vars
    /\ ~running ~> (\A i \in DOMAIN drivers : drivers[i].pc = "finished")

\* running is false and start() has returned; one driver that was stopped
\* in its sleep before its last repeat, with a handler that never raised, is
\* finished, and another one was stopped in the same way
C35_Witness ==
    /\ ~running /\ pc = "closed"
    /\ \E i, j \in DOMAIN drivers :
          /\ i # j
          /\ drivers[i].pc = "finished" /\ ~drivers[i].raised
          /\ drivers[i].seen # <<>> /\ Len(drivers[i].seen) < MaxRepeat
          /\ drivers[j].pc = "finished" /\ ~drivers[j].raised
          /\ drivers[j].f # drivers[i].f
          /\ Len(drivers[j].seen) < MaxRepeat

\* handler h, registered in the Bot under key k of the dict registry named
\* reg, was there at construction or belongs to a loaded cog that has k in
\* its record
DictEntryAccounted(reg, initial, k, h) ==
    \/ k \in DOMAIN initial /\ initial[k] = h
    \/ \E c \in DOMAIN cogs : k \in cogs[c][reg] /\ h.owner = c

\* the prefix_commands of the Bot at construction, as a dict
InitialPrefixes ==
    [k \in OrdKeys(BotInit.bp) |-> OrdGet(BotInit.bp, k)]

\* C36: in every state reached by load_cog, unload_cog and reload_cog each
\* handler in the Bot's commands, prefix_commands, tasks and event-handler
\* sequences was there at construction or is recorded in the record of a
\* cog that is loaded now: no handler of an unloaded cog and no earlier
\* version of a reloaded cog's handler is still dispatched.
C36_DispatchedIsBuiltInOrLoaded ==
    /\ \A k \in DOMAIN commands :
          DictEntryAccounted("commands", BotInit.bc, k, commands[k])
    /\ \A i \in DOMAIN prefix_commands :
          DictEntryAccounted("prefix_commands", InitialPrefixes,
                             prefix_commands[i].key, prefix_commands[i].h)
    /\ \A k \in DOMAIN task_registry :
          DictEntryAccounted("tasks", BotInit.bt, k, task_registry[k])
    /\ \A k \in Kinds : \A h \in SeqSet(event_handlers[k]) :
          \/ h \in SeqSet(BotInit.be[k])
          \/ \E c \in DOMAIN cogs : h \in SeqSet(cogs[c].events[k])

\* the line being dispatched is a PRIVMSG whose text is the command prefix
\* with nothing or only whitespace after it
BarePrefixLine ==
    /\ PrivmsgLine
    /\ StartsWith(src.trailing, CommandPrefix)
    /\ Strip(Drop(src.trailing, Len(CommandPrefix))) = <<>>

\* C37: a PRIVMSG whose text is exactly the command prefix, or the prefix
\* followed only by whitespace, is dispatched without error: no command
\* handler fires, the prefix-commands and message handlers are routed as
\* for an unknown command, and the main loop goes on.
C37_BarePrefixIsDispatched ==
    (BarePrefixLine /\ \A i \in DOMAIN calls : calls[i].did # "raise") =>
        /\ pc # "crashed"
        /\ CallsOf("command") = <<>>
        /\ pc = "loop" =>
              /\ running
              /\ CallsOf("prefix") = MatchingPrefixHandlers(src.trailing)
              /\ CallsOf("on_message")
                    = (IF ~CommandFired /\ StartsWith(src.middle, <<"#">>)
                       THEN event_handlers["on_message"] ELSE <<>>)

\* drivers i and j are two drivers of one task function, both have left
\* their loops, running is true and neither handler raised
BothRanToEnd(i, j) ==
    /\ i # j
    /\ drivers[i].f = drivers[j].f
    /\ RanToEnd(i) /\ RanToEnd(j)

\* C38: two drivers started with start_task for the same task function run
\* independently: with running true and a handler that never raises each
\* of them invokes the handler exactly max_repeat times, 2 * max_repeat
\* invocations in total, however their iterations interleave.
C38_DriversOfOneFunctionIndependent ==
    \A i, j \in DOMAIN drivers :
        BothRanToEnd(i, j) =>
            /\ Len(drivers[i].seen) = MaxRepeat
            /\ Len(drivers[j].seen) = MaxRepeat
            /\ Len(drivers[i].seen) + Len(drivers[j].seen) = 2 * MaxRepeat

\* C39: during a DCC transfer the number of bytes written to the file never
\* exceeds the advertised filesize and progress never exceeds filesize (so
\* percent never exceeds 100), also when the sender transmits more bytes
\* than it advertised.
C39_WrittenWithinFilesize ==
    dcc.file.pc # "none" =>
        /\ ~Less(dcc.file.filesize, dcc.file.file_len)
        /\ ~Less(dcc.file.filesize, dcc.file.progress)

\* the last operation was a reload_cog of the loaded cog c that failed
FailedReload(c) ==
    /\ last_op.op = "reload" /\ last_op.cog = c
    /\ last_op.loaded /\ last_op.code # 0

\* entry e of the module of cog c has a handler of c in the registry of the
\* Bot that its decorator names
InBot(c, e, cmds, prefixes, tasks, events) ==
    CASE e.deco = "command" ->
            e.key \in DOMAIN cmds /\ cmds[e.key].owner = c
      [] e.deco = "prefix_command" ->
            e.key \in OrdKeys(prefixes) /\ OrdGet(prefixes, e.key).owner = c
      [] e.deco = "task" ->
            e.name \in DOMAIN tasks /\ tasks[e.name].owner = c
      [] OTHER ->
            \E h \in SeqSet(events[e.deco]) : h.owner = c /\ h.name = e.name

\* C40: a reload_cog of a loaded cog that fails in the re-import returns
\* (2, error) and does not lose the registrations of the cog for good: the
\* cog is still recorded as loaded with its handlers in the Bot's
\* registries, or a following load_cog of the working cog succeeds and puts
\* its handlers into the Bot's registries again.
C40_FailedReloadIsRecoverable ==
    [][\A c \in Cogs :
          FailedReload(c) =>
              /\ last_op.code = 2
              /\ \/ /\ c \in DOMAIN cogs
                    /\ \A i \in DOMAIN CogScript(c) :
                          InBot(c, CogScript(c)[i], commands, prefix_commands,
                                task_registry, event_handlers)
                 \/ (last_op'.op = "load" /\ last_op'.cog = c) =>
                       /\ last_op'.code = 0
                       /\ \A i \in DOMAIN CogScript(c) :
                             InBot(c, CogScript(c)[i], commands',
                                   prefix_commands', task_registry',
                                   event_handlers')]_vars
====
